---------------------------- MODULE Spec2Model ----------------------------
(***************************************************************************)
(* A model of ogrim: the `xml!` macro (token parser and call emitter in    *)
(* macros/src) and the runtime `Document` it drives (src/lib.rs).          *)
(*                                                                         *)
(* Text is modelled as a sequence of characters, a character being a       *)
(* one-character string; a character that is not ASCII is written by its   *)
(* scalar value, "U+00B7" (see CodePoint).                                 *)
(***************************************************************************)
EXTENDS Integers, Sequences, FiniteSets, TLC

VARIABLES
    buf,        \* Document.buf
    depth,      \* Document.depth
    format,     \* Document.format
    status,     \* "ok", or "panicked" once a Document operation has panicked
    ctor,       \* the arguments Document::new was called with
    calls,      \* the Document operations called so far, in order (history)
    prevBuf,    \* buf as it was before the last operation (history)
    prevDepth,  \* depth as it was before the last operation (history)
    val,        \* the value handed to attr/text in the escaping runs
    header,     \* xml! input: the tokens before the root element
    markup,     \* xml! input: the pieces of markup written after the header
    phase,      \* "typing", "rejected", "expanded", "running", "done"
    program,    \* the statements of the expansion, continuations expanded
    pc,         \* index in program of the statement to run next
    start,      \* buf and depth of the Document when the expansion starts
    parsed,     \* the result of the parser that ran last on its own
    lookahead,  \* the ParseBuf read token by token, when there is one
    reads       \* the curr/next/bump calls made on it with what they
                \* returned, in order (history)

macro ==
    <<header, markup, phase, program, pc, start, parsed, lookahead, reads>>
vars == <<buf, depth, format, status, ctor, calls, prevBuf, prevDepth, val,
          header, markup, phase, program, pc, start, parsed, lookahead,
          reads>>

---------------------------------------------------------------------------
(* Bounds of the model. *)

\* Longest value written through the escaping writer in SpecEsc.
MaxLen == 4
\* Most Document operations called after `new` in SpecDoc.
MaxCalls == 4
\* Most (name, value) pairs in one attrs batch.
MaxBatch == 3
MaxPieces == 4

---------------------------------------------------------------------------
(* Text helpers. *)

SeqsUpTo(S, n) == UNION {[1..k -> S] : k \in 0..n}

EndsWith(s, suffix) ==
    /\ Len(suffix) <= Len(s)
    /\ SubSeq(s, Len(s) - Len(suffix) + 1, Len(s)) = suffix

IsPrefix(p, s) ==
    /\ Len(p) <= Len(s)
    /\ SubSeq(s, 1, Len(p)) = p

RECURSIVE Repeat(_, _)
Repeat(s, n) == IF n <= 0 THEN <<>> ELSE s \o Repeat(s, n - 1)

---------------------------------------------------------------------------
(* shared.rs: the XML Name grammar. *)

UpperAZ == {"A","B","C","D","E","F","G","H","I","J","K","L","M",
            "N","O","P","Q","R","S","T","U","V","W","X","Y","Z"}
LowerAZ == {"a","b","c","d","e","f","g","h","i","j","k","l","m",
            "n","o","p","q","r","s","t","u","v","w","x","y","z"}
Digit09 == {"0","1","2","3","4","5","6","7","8","9"}

\* The scalar value of the characters that are not ASCII: "U+00F8" is the
\* character of that scalar value.  These are the non-ASCII characters of
\* the model's texts.
CodePoint ==
    ("U+00AA" :> \hAA) @@ ("U+00B5" :> \hB5) @@ ("U+00B7" :> \hB7)
    @@ ("U+00BA" :> \hBA) @@ ("U+00C0" :> \hC0) @@ ("U+00D7" :> \hD7)
    @@ ("U+00DF" :> \hDF) @@ ("U+00E9" :> \hE9) @@ ("U+00F6" :> \hF6)
    @@ ("U+00F7" :> \hF7) @@ ("U+00F8" :> \hF8) @@ ("U+0301" :> \h301)
    @@ ("U+0370" :> \h370) @@ ("U+037E" :> \h37E) @@ ("U+03B1" :> \h3B1)
    @@ ("U+03B2" :> \h3B2) @@ ("U+200C" :> \h200C) @@ ("U+203F" :> \h203F)
    @@ ("U+2054" :> \h2054) @@ ("U+2070" :> \h2070) @@ ("U+2C00" :> \h2C00)
    @@ ("U+3000" :> \h3000) @@ ("U+4E2D" :> \h4E2D) @@ ("U+F900" :> \hF900)
    @@ ("U+FDF0" :> \hFDF0) @@ ("U+FFFE" :> \hFFFE) @@ ("U+1F600" :> \h1F600)

\* c is in one of the ranges lo..=hi.
InRanges(c, ranges) ==
    /\ c \in DOMAIN CodePoint
    /\ \E r \in ranges : r[1] <= CodePoint[c] /\ CodePoint[c] <= r[2]

\* The non-ASCII ranges of is_name_start_char.
NameStartRanges ==
    {<<\hC0, \hD6>>, <<\hD8, \hF6>>, <<\hF8, \h2FF>>, <<\h370, \h37D>>,
     <<\h37F, \h1FFF>>, <<\h200C, \h200D>>, <<\h2070, \h218F>>,
     <<\h2C00, \h2FEF>>, <<\h3001, \hD7FF>>, <<\hF900, \hFDCF>>,
     <<\hFDF0, \hFFFD>>, <<\h10000, \hEFFFF>>}
\* The non-ASCII ranges is_name_char adds.
NameCharRanges == {<<\hB7, \hB7>>, <<\h0300, \h036F>>, <<\h203F, \h2040>>}

is_name_start_char(c) ==
    \/ c = ":"
    \/ c \in UpperAZ
    \/ c = "_"
    \/ c \in LowerAZ
    \/ InRanges(c, NameStartRanges)

is_name_char(c) ==
    \/ is_name_start_char(c)
    \/ c = "-"
    \/ c = "."
    \/ c \in Digit09
    \/ InRanges(c, NameCharRanges)

is_name(s) ==
    IF s = <<>> THEN FALSE
    ELSE /\ is_name_start_char(s[1])
         /\ \A i \in 2..Len(s) : is_name_char(s[i])

---------------------------------------------------------------------------
(* lib.rs: the escaping writer. *)

\* Mutants of needs_escape: `>` left alone; quotes escaped whatever the flag.
needs_escape_without_gt(c, escape_quote) ==
    \/ c \in {"<", "&"}
    \/ (escape_quote /\ c = "\"")

needs_escape_quote_always(c, escape_quote) ==
    c \in {"<", ">", "&", "\""}

\* The closure `needs_escape` of EscapedWriter::write_str.
needs_escape(c, escape_quote) ==
    \/ c \in {"<", ">", "&"}
    \/ (escape_quote /\ c = "\"")

\* Mutant of entity: the ampersand written as it is.
entity_bare_amp(c) ==
    CASE c = "<"  -> <<"&", "l", "t", ";">>
      [] c = ">"  -> <<"&", "g", "t", ";">>
      [] c = "&"  -> <<"&">>
      [] c = "\"" -> <<"&", "q", "u", "o", "t", ";">>
      [] OTHER    -> <<"!unreachable">>

\* The match on the byte found, in write_str.
entity(c) ==
    CASE c = "<"  -> <<"&", "l", "t", ";">>
      [] c = ">"  -> <<"&", "g", "t", ";">>
      [] c = "&"  -> <<"&", "a", "m", "p", ";">>
      [] c = "\"" -> <<"&", "q", "u", "o", "t", ";">>
      [] OTHER    -> <<"!unreachable">>

\* `remaining.find(needs_escape)`: the first position (from 1) whose
\* character needs escaping, 0 for None.
find(s, escape_quote) ==
    LET hits == {i \in 1..Len(s) : needs_escape(s[i], escape_quote)}
    IN  IF hits = {} THEN 0
        ELSE CHOOSE i \in hits : \A j \in hits : i <= j

\* Mutant of write_str: only the first character found is replaced, the
\* rest of the string written as it is.
write_str_first_only(b, s, escape_quote) ==
    LET pos == find(s, escape_quote)
    IN  IF pos = 0 THEN b \o s
        ELSE b \o SubSeq(s, 1, pos - 1) \o entity(s[pos])
               \o SubSeq(s, pos + 1, Len(s))

\* EscapedWriter::write_str: b is the buffer written to, the result the
\* buffer after the call.
RECURSIVE write_str(_, _, _)
write_str(b, s, escape_quote) ==
    LET pos == find(s, escape_quote)
    IN  IF pos = 0 THEN b \o s
        ELSE write_str(b \o SubSeq(s, 1, pos - 1) \o entity(s[pos]),
                       SubSeq(s, pos + 1, Len(s)), escape_quote)

\* escape_into: the value's Display writes a string in one write_str call.
escape_into(b, v, escape_quote) == write_str(b, v, escape_quote)

---------------------------------------------------------------------------
(* lib.rs: Format, Version and the Document. *)

Terse == [pretty |-> FALSE, indentation |-> <<>>]
Pretty(indentation) == [pretty |-> TRUE, indentation |-> indentation]

VersionText(version) ==
    IF version = "V1_0" THEN <<"1", ".", "0">> ELSE <<"1", ".", "1">>

\* Mutant of newline: the line break without the indentation.
newline_without_indentation(d) ==
    IF d.format.pretty
    THEN [d EXCEPT !.buf = d.buf \o <<"\n">>]
    ELSE d

\* Document::newline.  d is a record [buf, depth, format, panicked].
newline(d) ==
    IF d.format.pretty
    THEN [d EXCEPT !.buf = d.buf \o <<"\n">> \o Repeat(d.format.indentation, d.depth)]
    ELSE d

\* A panic: the operation stops where it is and the state is what was
\* written until then.
Panicked(d) == [d EXCEPT !.panicked = TRUE]

\* Document::new.  standalone is "None", "Some(true)" or "Some(false)".
new(version, standalone, fmt) ==
    LET b1 == <<"<","?","x","m","l"," ","v","e","r","s","i","o","n","=","\"">>
              \o VersionText(version)
              \o <<"\""," ","e","n","c","o","d","i","n","g","=","\"",
                   "U","T","F","-","8","\"">>
        b2 == IF standalone = "None" THEN b1
              ELSE b1 \o <<" ","s","t","a","n","d","a","l","o","n","e","=">>
                      \o (IF standalone = "Some(true)"
                          THEN <<"y","e","s">> ELSE <<"n","o">>)
        b3 == b2 \o <<"?", ">">>
    IN  newline([buf |-> b3, depth |-> 0, format |-> fmt, panicked |-> FALSE])

\* Document::open_tag.
open_tag(d, name) == [d EXCEPT !.buf = d.buf \o <<"<">> \o name]

\* Document::attr.
attr(d, name, value) ==
    LET b1 == d.buf \o <<" ">> \o name \o <<"=", "\"">>
        b2 == escape_into(b1, value, TRUE)
    IN  [d EXCEPT !.buf = b2 \o <<"\"">>]

\* Mutant of attrs: the values written as text is, quotes kept.
RECURSIVE attrs_keeping_quotes(_, _)
attrs_keeping_quotes(d, pairs) ==
    IF pairs = <<>> THEN d
    ELSE LET name  == pairs[1][1]
             value == pairs[1][2]
             len_before == Len(d.buf)
             b1 == d.buf \o <<" ">> \o name \o <<"=", "\"">>
             written_name == SubSeq(b1, len_before + 2, Len(b1) - 2)
         IN  IF ~is_name(written_name)
             THEN Panicked([d EXCEPT !.buf = b1])
             ELSE attrs_keeping_quotes(
                      [d EXCEPT !.buf = escape_into(b1, value, FALSE) \o <<"\"">>],
                      Tail(pairs))

\* Document::attrs.  pairs is the sequence the iterator yields, each pair
\* <<name, value>>.
RECURSIVE attrs(_, _)
attrs(d, pairs) ==
    IF pairs = <<>> THEN d
    ELSE LET name  == pairs[1][1]
             value == pairs[1][2]
             len_before == Len(d.buf)
             b1 == d.buf \o <<" ">> \o name \o <<"=", "\"">>
             \* &self.buf[len_before + 1..self.buf.len() - 2]
             written_name == SubSeq(b1, len_before + 2, Len(b1) - 2)
         IN  IF ~is_name(written_name)
             THEN Panicked([d EXCEPT !.buf = b1])
             ELSE attrs([d EXCEPT !.buf = escape_into(b1, value, TRUE) \o <<"\"">>],
                        Tail(pairs))

\* Mutant of close_start_tag: the depth is not counted.
close_start_tag_keeps_depth(d) ==
    newline([d EXCEPT !.buf = d.buf \o <<">">>])

\* Document::close_start_tag.
close_start_tag(d) ==
    newline([d EXCEPT !.buf = d.buf \o <<">">>, !.depth = d.depth + 1])

\* Mutant of close_empty_elem_tag: ` />` in every format.
close_empty_elem_tag_spaced(d) ==
    newline([d EXCEPT !.buf = d.buf \o <<" ", "/", ">">>])

\* Document::close_empty_elem_tag.
close_empty_elem_tag(d) ==
    newline([d EXCEPT !.buf = d.buf \o (IF ~d.format.pretty
                                        THEN <<"/", ">">>
                                        ELSE <<" ", "/", ">">>)])

\* Mutants of end_tag: without the depth assertion; without the trimming of
\* the indentation unit.
end_tag_unchecked(d, name) ==
    IF d.format.pretty /\ ~EndsWith(d.buf, d.format.indentation)
    THEN Panicked(d)
    ELSE LET b1 == IF d.format.pretty
                   THEN SubSeq(d.buf, 1, Len(d.buf) - Len(d.format.indentation))
                   ELSE d.buf
         IN  newline([d EXCEPT !.buf = b1 \o <<"<", "/">> \o name \o <<">">>,
                               !.depth = d.depth - 1])

end_tag_untrimmed(d, name) ==
    IF ~(d.depth > 0) THEN Panicked(d)
    ELSE newline([d EXCEPT !.buf = d.buf \o <<"<", "/">> \o name \o <<">">>,
                           !.depth = d.depth - 1])

\* All the indentation at the end of the buffer is removed, not one unit.
end_tag_trims_all(d, name) ==
    IF ~(d.depth > 0) THEN Panicked(d)
    ELSE IF d.format.pretty /\ ~EndsWith(d.buf, d.format.indentation)
    THEN Panicked(d)
    ELSE LET b1 == IF d.format.pretty
                   THEN SubSeq(d.buf, 1, Len(d.buf)
                                         - d.depth * Len(d.format.indentation))
                   ELSE d.buf
         IN  newline([d EXCEPT !.buf = b1 \o <<"<", "/">> \o name \o <<">">>,
                               !.depth = d.depth - 1])

\* Document::end_tag.
end_tag(d, name) ==
    IF ~(d.depth > 0) THEN Panicked(d)
    ELSE IF d.format.pretty /\ ~EndsWith(d.buf, d.format.indentation)
    THEN Panicked(d)
    ELSE LET b1 == IF d.format.pretty
                   THEN SubSeq(d.buf, 1, Len(d.buf) - Len(d.format.indentation))
                   ELSE d.buf
         IN  newline([d EXCEPT !.buf = b1 \o <<"<", "/">> \o name \o <<">">>,
                               !.depth = d.depth - 1])

\* Document::text.
text(d, value) == newline([d EXCEPT !.buf = escape_into(d.buf, value, FALSE)])

---------------------------------------------------------------------------
(* The macro's input: proc_macro2 token trees.  A token is a record
   [kind, text, lit, delim, inner, span, src, spacing]: kind is "Punct",
   "Ident", "Literal" or "Group"; text is the characters of a punctuation,
   identifier or literal (for a string literal, its value); lit is "str",
   "num", "char" or "cstr" for a literal; delim and inner are a group's delimiter
   and tokens; span is the token's place in the input, a path of positions;
   spacing is a punctuation's Spacing: "Joint" when another punctuation
   follows it directly, as the first `:` of `::`, else "Alone". *)

None == <<>>
Some(x) == <<x>>
IsNone(o) == Len(o) = 0
IsSome(o) == Len(o) = 1

NoSpan == <<>>
Tok(kind, txt, lit, delim, inner) ==
    [kind |-> kind, text |-> txt, lit |-> lit, delim |-> delim,
     inner |-> inner, span |-> NoSpan, src |-> <<>>, spacing |-> "Alone"]
Punct(c) == Tok("Punct", <<c>>, "", "", <<>>)
Joint(c) == [Punct(c) EXCEPT !.spacing = "Joint"]
Ident(s) == Tok("Ident", s, "", "", <<>>)
Group(delim, inner) == Tok("Group", <<>>, "", delim, inner)

\* A value written between quotes as Literal::string and
\* Literal::character write it: a backslash before the quote character and
\* before the backslash, and \n, \r and \t for a line feed, a carriage
\* return and a tab.
RECURSIVE SourceText(_, _)
SourceText(value, quote) ==
    IF Len(value) = 0 THEN <<>>
    ELSE (CASE Head(value) \in {quote, "\\"} -> <<"\\", Head(value)>>
            [] Head(value) = "\n" -> <<"\\", "n">>
            [] Head(value) = "\r" -> <<"\\", "r">>
            [] Head(value) = "\t" -> <<"\\", "t">>
            [] OTHER -> <<Head(value)>>) \o SourceText(Tail(value), quote)

\* A literal token holds its text as written in the source (src) and, for
\* a string or char literal, the value that text stands for (text).
\* Spelled is the literal of a value written src: with other escapes, or
\* as a raw string.  StrLit and CharLit write the value as SourceText
\* does; a numeric literal is its text; a C string literal is the string
\* literal with a `c` before it.
Spelled(txt, lit, src) ==
    [Tok("Literal", txt, lit, "", <<>>) EXCEPT !.src = src]
StrLit(v) == Spelled(v, "str", <<"\"">> \o SourceText(v, "\"") \o <<"\"">>)
NumLit(s) == Spelled(s, "num", s)
CharLit(s) == Spelled(s, "char", <<"'">> \o SourceText(s, "'") \o <<"'">>)
CStrLit(v) ==
    Spelled(v, "cstr", <<"c", "\"">> \o SourceText(v, "\"") \o <<"\"">>)

\* The spans the compiler gives the tokens of a stream.
RECURSIVE WithSpans(_, _)
WithSpans(tokens, path) ==
    [i \in 1..Len(tokens) |->
        [tokens[i] EXCEPT !.span = Append(path, i),
                          !.inner = WithSpans(tokens[i].inner, Append(path, i))]]

\* Literal::to_string: the literal as written in the source.
LiteralToString(tt) == tt.src

---------------------------------------------------------------------------
(* err.rs, and the outcome of a fallible function: Ok(val) or Err(Error)
   with the Error's msg (its format string), args and span, either one with
   the parse buffer (the `&mut ParseBuf` of the call) as the call left it,
   or a panic.  atEnd is not part of Error: it records that the input stream
   was exhausted when the error was raised or the panic began.  A function
   that takes no parse buffer leaves none (<<>>). *)

Ok(v, pb) ==
    [tag |-> "Ok", val |-> v, buf |-> pb, msg |-> "", args |-> <<>>,
     span |-> None, atEnd |-> FALSE]
Err(msg, args, span, atEnd, pb) ==
    [tag |-> "Err", val |-> <<>>, buf |-> pb, msg |-> msg, args |-> args,
     span |-> span, atEnd |-> atEnd]
Panic(msg, atEnd, pb) ==
    [tag |-> "Panic", val |-> <<>>, buf |-> pb, msg |-> msg, args |-> <<>>,
     span |-> None, atEnd |-> atEnd]
IsOk(r) == r.tag = "Ok"

\* StringLit::try_from(token), of the crate litrs: the value of a string
\* literal, an error for a token that is no string literal, and a panic
\* for a literal whose text litrs does not parse: a C string literal
\* (c"..", cr"..").  pb is the caller's buffer at the call.
try_from(tt, pb) ==
    CASE tt.kind = "Literal" /\ tt.lit = "str" -> Ok(tt.text, pb)
      [] tt.kind = "Literal" /\ tt.lit = "cstr" ->
           Panic("bug: failed to parse output of Literal::to_string", FALSE, pb)
      [] OTHER -> Err("invalid token", <<>>, None, FALSE, pb)

\* `let v = ..;` and the `?` operator: the rest of the function, K, runs on
\* an Ok, and an Err (or a panic) is returned as it is.
Let(v, K(_)) == K(v)
Try(r, K(_)) == IF IsOk(r) THEN K(r) ELSE r

\* The outcome r of a call on a buffer of its own (one made by from_group),
\* seen from the function whose buffer is pb: a failure leaves pb as it is.
Inner(r, pb) == IF IsOk(r) THEN r ELSE [r EXCEPT !.buf = pb]

---------------------------------------------------------------------------
(* parse/buf.rs: ParseBuf, a record [iter, curr, next, span]. *)

\* Iterator::next on the token stream: the item and the rest.
IterNext(iter) ==
    IF Len(iter) = 0 THEN [item |-> None, iter |-> iter]
    ELSE [item |-> Some(Head(iter)), iter |-> Tail(iter)]

new_impl(iter, span) ==
    Let(IterNext(iter), LAMBDA first :
    Let(IterNext(first.iter), LAMBDA second :
        [iter |-> second.iter, curr |-> first.item, next |-> second.item,
         span |-> span]))

from_stream(tokens) == new_impl(tokens, None)
from_group(group) == new_impl(group.inner, Some(group.span))

eof_err(pb) ==
    Err("unexpected end of input", <<>>, pb.span, IsNone(pb.span), pb)

curr(pb) == IF IsSome(pb.curr) THEN Ok(pb.curr[1], pb) ELSE eof_err(pb)
next(pb) == IF IsSome(pb.next) THEN Ok(pb.next[1], pb) ELSE eof_err(pb)

\* Mutant of Bumped: the token after next is not fetched.
Bumped_without_refill(pb) ==
    [pb EXCEPT !.curr = pb.next, !.next = None]

\* The buffer as bump leaves it, whatever bump returns.
Bumped(pb) ==
    Let(IterNext(pb.iter), LAMBDA n :
        [pb EXCEPT !.curr = pb.next, !.next = n.item, !.iter = n.iter])

bump(pb) ==
    IF IsSome(pb.curr) THEN Ok(pb.curr[1], Bumped(pb)) ELSE eof_err(Bumped(pb))

is_punct(tt, c) == tt.kind = "Punct" /\ tt.text = <<c>>

expect_punct(pb, c) ==
    Try(bump(pb), LAMBDA r :
        IF is_punct(r.val, c) THEN r
        ELSE Err("expected '{c}'", <<c>>, Some(r.val.span), FALSE, r.buf))

expect_ident(pb) ==
    Try(bump(pb), LAMBDA r :
        IF r.val.kind = "Ident" THEN r
        ELSE Err("expected identifier", <<>>, Some(r.val.span), FALSE, r.buf))

expect_string_lit(pb) ==
    Try(bump(pb), LAMBDA r :
    Let(try_from(r.val, r.buf), LAMBDA lit :
        CASE lit.tag = "Ok" -> r
          [] lit.tag = "Panic" -> lit
          [] OTHER -> Err("expected string literal", <<>>, Some(r.val.span),
                          FALSE, r.buf)))

expect_group(pb, delim) ==
    Try(bump(pb), LAMBDA r :
        IF r.val.kind = "Group" /\ r.val.delim = delim THEN r
        ELSE Err("expected {delim:?} delimited group", <<delim>>,
                 Some(r.val.span), FALSE, r.buf))

expect_eof(pb) ==
    IF IsSome(pb.curr)
    THEN Err("unexpected extra token", <<>>, Some(pb.curr[1].span), FALSE, pb)
    ELSE Ok(<<>>, pb)

\* iter::from_fn(|| buf.bump().ok()): the tokens left, current one first.
RECURSIVE collect_rest(_)
collect_rest(pb) ==
    IF IsNone(pb.curr) THEN <<>>
    ELSE <<pb.curr[1]>> \o collect_rest(Bumped(pb))

---------------------------------------------------------------------------
(* parse/mod.rs and ast.rs: the recursive-descent parser and its AST. *)

\* Rust identifier characters that XML names do not allow.
InvalidIdentChars == {"U+00AA", "U+00B5", "U+00BA", "U+2054"}

\* A numeric literal ends the name instead of being part of it.
name_step_without_literals(tt, out, eat_non_punct) ==
    CASE tt.kind = "Ident" ->
           IF ~eat_non_punct THEN "stop"
           ELSE IF \E i \in 1..Len(tt.text) : tt.text[i] \in InvalidIdentChars
           THEN "err"
           ELSE "eat"
      [] tt.kind = "Punct" ->
           IF tt.text[1] = ":" \/ (Len(out) > 0 /\ tt.text[1] \in {".", "-"})
           THEN "eat" ELSE "stop"
      [] OTHER -> "stop"

\* One token of the loop of <ast::Name as Parse>::parse: "eat" the token's
\* text, "stop" before it, or fail on an identifier character.
name_step(tt, out, eat_non_punct) ==
    CASE tt.kind = "Ident" ->
           IF ~eat_non_punct THEN "stop"
           ELSE IF \E i \in 1..Len(tt.text) : tt.text[i] \in InvalidIdentChars
           THEN "err"
           ELSE "eat"
      [] tt.kind = "Literal" ->
           IF Len(LiteralToString(tt)) > 0 /\ LiteralToString(tt)[1] \in Digit09
           THEN "eat" ELSE "stop"
      [] tt.kind = "Punct" ->
           IF tt.text[1] = ":" \/ (Len(out) > 0 /\ tt.text[1] \in {".", "-"})
           THEN "eat" ELSE "stop"
      [] OTHER -> "stop"

\* The loop of <ast::Name as Parse>::parse.  Ok(out) with the buffer after
\* the tokens eaten, or the error of an identifier character.
RECURSIVE name_loop(_, _, _)
name_loop(pb, out, eat_non_punct) ==
    IF IsNone(pb.curr) THEN Ok(out, pb)
    ELSE Let(pb.curr[1], LAMBDA tt :
         Let(name_step(tt, out, eat_non_punct), LAMBDA step :
           CASE step = "stop" -> Ok(out, pb)
             [] step = "err" ->
                  Err("Character '{}' is not allowed in XML names", <<>>,
                      None, FALSE, pb)
             [] tt.kind = "Ident" ->
                  name_loop(Bumped(pb), out \o tt.text, FALSE)
             [] tt.kind = "Literal" ->
                  name_loop(Bumped(pb), out \o LiteralToString(tt), eat_non_punct)
             [] OTHER ->
                  name_loop(Bumped(pb), out \o tt.text, TRUE)))

\* <ast::Name as Parse>::parse.  A Name is its string.
parse_name(pb) ==
    Try(curr(pb), LAMBDA c :
    Let(try_from(c.val, pb), LAMBDA lit :
    CASE lit.tag = "Panic" -> lit
      [] lit.tag = "Ok" ->
         IF ~is_name(lit.val)
         THEN Err("string contains characters that are not allowed in XML names",
                  <<>>, Some(c.val.span), FALSE, Bumped(pb))
         ELSE Ok(lit.val, Bumped(pb))
      [] OTHER ->
         Try(name_loop(pb, <<>>, TRUE), LAMBDA r :
         IF Len(r.val) > 0 THEN r
         ELSE IF IsNone(r.buf.curr)
         THEN Panic("called Result::unwrap() on an Err value", TRUE, r.buf)
         ELSE Err("expected name, found {unexpected}", <<>>,
                  Some(r.buf.curr[1].span), FALSE, r.buf))))

\* <ast::AttrValue as Parse>::parse.
Literal(s) == [kind |-> "Literal", s |-> s, tokens |-> <<>>]
Expr(tokens) == [kind |-> "Expr", s |-> <<>>, tokens |-> tokens]

parse_attr_value(pb) ==
    Try(bump(pb), LAMBDA r :
        CASE r.val.kind = "Literal" ->
               Let(try_from(r.val, r.buf), LAMBDA lit :
                   CASE lit.tag = "Ok" -> Ok(Literal(lit.val), r.buf)
                     [] lit.tag = "Panic" -> lit
                     [] OTHER -> Err("expected string literal", <<>>,
                                     Some(r.val.span), FALSE, r.buf))
          [] r.val.kind = "Group" /\ r.val.delim = "Brace" ->
               Ok(Expr(r.val.inner), r.buf)
          [] OTHER ->
               Err("expected attribute value: string literal or {{...}}", <<>>,
                   Some(r.val.span), FALSE, r.buf))

\* ast::Child and ast::Element.
ChildText(s) ==
    [kind |-> "Text", s |-> s, tokens |-> <<>>, arg |-> <<>>, elem |-> <<>>]
ChildTextExpr(tokens) ==
    [kind |-> "TextExpr", s |-> <<>>, tokens |-> tokens, arg |-> <<>>, elem |-> <<>>]
ChildClosure(arg, body) ==
    [kind |-> "Closure", s |-> <<>>, tokens |-> body, arg |-> arg, elem |-> <<>>]
ChildElement(elem) ==
    [kind |-> "Element", s |-> <<>>, tokens |-> <<>>, arg |-> <<>>, elem |-> <<elem>>]

\* The attribute pushed by the parser, (name, value): emit.rs reads it as
\* ast::Attr::Single(name, value).
Single(name, value) == [kind |-> "Single", name |-> name, value |-> value]

Element(name, attributes, children, empty) ==
    [name |-> name, attrs |-> attributes, children |-> children, empty |-> empty]

\* Every end tag name is taken to match.
end_name_matches_any(ending_name, name) == TRUE

\* The check of the end tag's name against the start tag's.
end_name_matches(ending_name, name) == ending_name = name

RECURSIVE parse_element(_), element_attrs(_, _), element_children(_, _),
          parse_child(_)

\* The attribute loop of <ast::Element as Parse>::parse: Ok([attrs, empty]).
element_attrs(pb, attributes) ==
    Try(curr(pb), LAMBDA c :
    IF is_punct(c.val, ">")
    THEN Ok([attrs |-> attributes, empty |-> FALSE], Bumped(pb))
    ELSE IF is_punct(c.val, "/")
    THEN Try(expect_punct(Bumped(pb), ">"), LAMBDA e :
             Ok([attrs |-> attributes, empty |-> TRUE], e.buf))
    ELSE Try(parse_name(pb), LAMBDA n :
         Try(expect_punct(n.buf, "="), LAMBDA e :
         Try(parse_attr_value(e.buf), LAMBDA v :
             element_attrs(v.buf, Append(attributes, Single(n.val, v.val)))))))

\* The condition of the children loop: Ok(TRUE) at `<` `/`.
at_end_tag(pb) ==
    Try(curr(pb), LAMBDA c :
    IF ~is_punct(c.val, "<") THEN Ok(FALSE, pb)
    ELSE Try(next(pb), LAMBDA n : Ok(is_punct(n.val, "/"), pb)))

\* The children loop: Ok(children), the buffer at the `<` of the end tag.
element_children(pb, children) ==
    Try(at_end_tag(pb), LAMBDA stop :
    IF stop.val THEN Ok(children, pb)
    ELSE Try(parse_child(pb), LAMBDA ch :
             element_children(ch.buf, Append(children, ch.val))))

\* The end tag must carry a name: `</>` is not taken.
parse_element_named_only(pb) ==
    Try(parse_name(pb), LAMBDA name :
    Try(element_attrs(name.buf, <<>>), LAMBDA a :
    IF a.val.empty THEN Ok(Element(name.val, a.val.attrs, <<>>, TRUE), a.buf)
    ELSE
    Try(element_children(a.buf, <<>>), LAMBDA children :
    Try(expect_punct(children.buf, "<"), LAMBDA lt :
    Try(expect_punct(lt.buf, "/"), LAMBDA sl :
    Try(parse_name(sl.buf), LAMBDA ending_name :
    IF ~end_name_matches(ending_name.val, name.val)
    THEN Err("end tag '{}' does not match start tag '{}'",
             <<ending_name.val, name.val>>, Some(lt.val.span),
             IsNone(ending_name.buf.curr), ending_name.buf)
    ELSE
    Try(expect_punct(ending_name.buf, ">"), LAMBDA gt :
        Ok(Element(name.val, a.val.attrs, children.val, FALSE), gt.buf))))))))

\* <ast::Element as Parse>::parse (the `<` is already eaten).
parse_element(pb) ==
    Try(parse_name(pb), LAMBDA name :
    Try(element_attrs(name.buf, <<>>), LAMBDA a :
    IF a.val.empty THEN Ok(Element(name.val, a.val.attrs, <<>>, TRUE), a.buf)
    ELSE
    Try(element_children(a.buf, <<>>), LAMBDA children :
    Try(expect_punct(children.buf, "<"), LAMBDA lt :
    Try(expect_punct(lt.buf, "/"), LAMBDA sl :
    Try(curr(sl.buf), LAMBDA c :
    IF is_punct(c.val, ">")
    THEN Ok(Element(name.val, a.val.attrs, children.val, FALSE), Bumped(sl.buf))
    ELSE
    Try(parse_name(sl.buf), LAMBDA ending_name :
    IF ~end_name_matches(ending_name.val, name.val)
    THEN Err("end tag '{}' does not match start tag '{}'",
             <<ending_name.val, name.val>>, Some(lt.val.span),
             IsNone(ending_name.buf.curr), ending_name.buf)
    ELSE
    Try(expect_punct(ending_name.buf, ">"), LAMBDA gt :
        Ok(Element(name.val, a.val.attrs, children.val, FALSE), gt.buf)))))))))

\* The closure child `{ |arg| body }`, r the bumped group.
parse_closure(r) ==
    Inner(Try(expect_punct(from_group(r.val), "|"), LAMBDA p1 :
          Try(expect_ident(p1.buf), LAMBDA arg :
          Try(expect_punct(arg.buf, "|"), LAMBDA p2 :
              Ok(ChildClosure(arg.val.text, collect_rest(p2.buf)), r.buf)))),
          r.buf)

\* <ast::Child as Parse>::parse.
parse_child(pb) ==
    Try(bump(pb), LAMBDA r :
        CASE r.val.kind = "Literal" ->
               Let(try_from(r.val, r.buf), LAMBDA lit :
                   CASE lit.tag = "Ok" -> Ok(ChildText(lit.val), r.buf)
                     [] lit.tag = "Panic" -> lit
                     [] OTHER -> Err("expected string literal", <<>>,
                                     Some(r.val.span), FALSE, r.buf))
          [] r.val.kind = "Group" /\ r.val.delim = "Brace" ->
               IF Len(r.val.inner) > 0 /\ is_punct(r.val.inner[1], "|")
               THEN parse_closure(r)
               ELSE Ok(ChildTextExpr(r.val.inner), r.buf)
          [] is_punct(r.val, "<") ->
               Try(parse_element(r.buf), LAMBDA e :
                   Ok(ChildElement(e.val), e.buf))
          [] OTHER ->
               Err("expected element child: string literal, {{...}} or '<'",
                   <<>>, Some(r.val.span), FALSE, r.buf))

S_xml == <<"x", "m", "l">>
S_version == <<"v", "e", "r", "s", "i", "o", "n">>
S_encoding == <<"e", "n", "c", "o", "d", "i", "n", "g">>
S_standalone == <<"s", "t", "a", "n", "d", "a", "l", "o", "n", "e">>
S_format == <<"f", "o", "r", "m", "a", "t">>
S_UTF8 == <<"U", "T", "F", "-", "8">>
S_1_0 == <<"1", ".", "0">>
S_1_1 == <<"1", ".", "1">>

\* The closure parse_attr of <ast::Prolog as Parse>::parse: Ok(None) at a
\* `?`, Ok(Some(value)) for name="value".
parse_attr(pb, name) ==
    Try(curr(pb), LAMBDA c :
    IF is_punct(c.val, "?") THEN Ok(None, pb)
    ELSE
    Try(expect_ident(pb), LAMBDA ident :
    IF ident.val.text # name
    THEN Err("expected '{name}' (prolog attributes have a fixed order)",
             <<name>>, Some(ident.val.span), FALSE, ident.buf)
    ELSE
    Try(expect_punct(ident.buf, "="), LAMBDA e :
    Try(expect_string_lit(e.buf), LAMBDA s :
        Ok(Some(s.val.text), s.buf)))))

\* <ast::Prolog as Parse>::parse.
parse_prolog(pb) ==
    Try(expect_ident(Bumped(Bumped(pb))), LAMBDA ident :
    IF ident.val.text # S_xml
    THEN Err("expected 'xml'", <<>>, Some(ident.val.span), FALSE, ident.buf)
    ELSE IF IsNone(ident.buf.curr)
    THEN Panic("called Result::unwrap() on an Err value", TRUE, ident.buf)
    ELSE
    Let(ident.buf.curr[1].span, LAMBDA next_span :
    Try(parse_attr(ident.buf, S_version), LAMBDA version :
    IF IsNone(version.val)
    THEN Err("expected 'xml'", <<>>, Some(next_span), FALSE, version.buf)
    ELSE
    Try(parse_attr(version.buf, S_encoding), LAMBDA encoding :
    Try(IF IsSome(encoding.val) THEN parse_attr(encoding.buf, S_standalone)
        ELSE Ok(None, encoding.buf), LAMBDA standalone :
    Try(expect_punct(standalone.buf, "?"), LAMBDA q :
    Try(expect_punct(q.buf, ">"), LAMBDA gt :
    IF IsSome(encoding.val) /\ encoding.val[1] # S_UTF8
    THEN Err("only encoding 'UTF-8' is allowed", <<>>, None, FALSE, gt.buf)
    ELSE Ok([version |-> version.val[1], standalone |-> standalone.val],
            gt.buf))))))))

\* The loop collecting the buffer expression: every token up to a `,`.
RECURSIVE buffer_tokens(_, _)
buffer_tokens(pb, tokens) ==
    IF IsSome(pb.curr) /\ ~is_punct(pb.curr[1], ",")
    THEN buffer_tokens(Bumped(pb), Append(tokens, pb.curr[1]))
    ELSE [tokens |-> tokens, buf |-> pb]

\* The loop of <ast::Input as Parse>::parse over meta attributes and the
\* buffer expression: Ok([buffer, format]), the buffer at the `<`.
RECURSIVE input_loop(_, _, _)
input_loop(pb, buffer, fmt) ==
    Try(curr(pb), LAMBDA c :
    IF is_punct(c.val, "#")
    THEN Try(expect_punct(pb, "#"), LAMBDA h :
         Try(expect_group(h.buf, "Bracket"), LAMBDA g :
         Try(Inner(expect_ident(from_group(g.val)), g.buf), LAMBDA key :
         IF key.val.text = S_format
         THEN Try(Inner(expect_punct(key.buf, "="), g.buf), LAMBDA e :
                  input_loop(g.buf, buffer, Some(collect_rest(e.buf))))
         ELSE Err("unsupported global attribute '{other}'", <<key.val.text>>,
                  Some(key.val.span), FALSE, g.buf))))
    ELSE IF is_punct(c.val, "<")
    THEN Ok([buffer |-> buffer, format |-> fmt], pb)
    ELSE Let(buffer_tokens(pb, <<>>), LAMBDA t :
         Try(bump(t.buf), LAMBDA comma :
             input_loop(comma.buf, Some(t.tokens), fmt))))

\* <ast::Input as Parse>::parse.
parse_input_body(pb) ==
    Try(input_loop(pb, None, None), LAMBDA head :
    Try(next(head.buf), LAMBDA n :
    Try(IF is_punct(n.val, "?")
        THEN Try(parse_prolog(head.buf), LAMBDA pr : Ok(Some(pr.val), pr.buf))
        ELSE Ok(None, head.buf), LAMBDA prolog :
    Try(expect_punct(prolog.buf, "<"), LAMBDA lt :
    Try(parse_element(lt.buf), LAMBDA root :
        Ok([buffer |-> head.val.buffer, format |-> head.val.format,
            prolog |-> prolog.val, root |-> root.val], root.buf))))))

\* ast::Input::parse_input.
parse_input(tokens) ==
    Try(parse_input_body(from_stream(tokens)), LAMBDA out :
    Try(expect_eof(out.buf), LAMBDA eof : out))

---------------------------------------------------------------------------
(* emit.rs: the statements the macro expands to.  A statement is a record
   [op, name, arg, tokens, version, standalone]: a call on `buf` (op the
   method, name its name argument, arg its value argument: a string literal
   or a host expression), `let mut buf = Document::new(..)`,
   `let mut buf = &mut *expr` ("bind"), or a continuation block
   `{ let arg = &mut buf; body }` ("closure"). *)

NoArg == [kind |-> "None", s |-> <<>>, tokens |-> <<>>]
Stmt(op, name, arg, tokens) ==
    [op |-> op, name |-> name, arg |-> arg, tokens |-> tokens,
     version |-> "", standalone |-> None]
StmtNew(version, standalone, fmt) ==
    [op |-> "new", name |-> <<>>, arg |-> NoArg, tokens |-> fmt,
     version |-> version, standalone |-> standalone]

\* quote! { ogrim::Format::Terse }
TerseTokens ==
    <<Ident(<<"o", "g", "r", "i", "m">>), Joint(":"), Punct(":"),
      Ident(<<"F", "o", "r", "m", "a", "t">>), Joint(":"), Punct(":"),
      Ident(<<"T", "e", "r", "s", "e">>)>>

RECURSIVE emit_element(_), emit_children(_)

\* The attribute calls are emitted last attribute first.
emit_attrs_reversed(attributes) ==
    [i \in 1..Len(attributes) |->
        LET a == attributes[Len(attributes) + 1 - i]
        IN  IF a.kind = "Single"
            THEN Stmt("attr", a.name, a.value, <<>>)
            ELSE Stmt("attrs", <<>>, NoArg, a.tokens)]

emit_attrs(attributes) ==
    [i \in 1..Len(attributes) |->
        IF attributes[i].kind = "Single"
        THEN Stmt("attr", attributes[i].name, attributes[i].value, <<>>)
        ELSE Stmt("attrs", <<>>, NoArg, attributes[i].tokens)]

\* A continuation child is emitted after the children that follow it.
emit_children_continuations_last(children) ==
    IF Len(children) = 0 THEN <<>>
    ELSE LET child == children[1] IN
         (CASE child.kind = "Text" ->
                 <<Stmt("text", <<>>, Literal(child.s), <<>>)>>
            [] child.kind = "TextExpr" ->
                 <<Stmt("text", <<>>, Expr(child.tokens), <<>>)>>
            [] child.kind = "Closure" -> <<>>
            [] OTHER -> emit_element(child.elem[1]))
         \o emit_children(Tail(children))
         \o (IF child.kind = "Closure"
             THEN <<Stmt("closure", child.arg, NoArg, child.tokens)>>
             ELSE <<>>)

emit_children(children) ==
    IF Len(children) = 0 THEN <<>>
    ELSE LET child == children[1] IN
         (CASE child.kind = "Text" ->
                 <<Stmt("text", <<>>, Literal(child.s), <<>>)>>
            [] child.kind = "TextExpr" ->
                 <<Stmt("text", <<>>, Expr(child.tokens), <<>>)>>
            [] child.kind = "Closure" ->
                 <<Stmt("closure", child.arg, NoArg, child.tokens)>>
            [] OTHER -> emit_element(child.elem[1]))
         \o emit_children(Tail(children))

\* An element that is not self-closing gets no end_tag call.
emit_element_unclosed(elem) ==
    <<Stmt("open_tag", elem.name, NoArg, <<>>)>>
    \o emit_attrs(elem.attrs)
    \o (IF elem.empty
        THEN <<Stmt("close_empty_elem_tag", <<>>, NoArg, <<>>)>>
        ELSE <<Stmt("close_start_tag", <<>>, NoArg, <<>>)>>
             \o emit_children(elem.children))

\* emit_element.
emit_element(elem) ==
    <<Stmt("open_tag", elem.name, NoArg, <<>>)>>
    \o emit_attrs(elem.attrs)
    \o (IF elem.empty
        THEN <<Stmt("close_empty_elem_tag", <<>>, NoArg, <<>>)>>
        ELSE <<Stmt("close_start_tag", <<>>, NoArg, <<>>)>>
             \o emit_children(elem.children)
             \o <<Stmt("end_tag", elem.name, NoArg, <<>>)>>)

\* The prolog is required whether or not a buffer is given.
buf_init_prolog_always(input) ==
    IF IsNone(input.prolog)
    THEN Err("you have to specify either a buffer to write into or an XML prolo",
             <<>>, None, FALSE, <<>>)
    ELSE IF IsSome(input.buffer)
    THEN Ok(Stmt("bind", <<>>, NoArg, input.buffer[1]), <<>>)
    ELSE Let(input.prolog[1], LAMBDA prolog :
         IF prolog.version \notin {S_1_0, S_1_1}
         THEN Err("invalid version '{other}'", <<prolog.version>>, None, FALSE,
                  <<>>)
         ELSE Ok(StmtNew(IF prolog.version = S_1_0 THEN "V1_0" ELSE "V1_1",
                         prolog.standalone,
                         IF IsSome(input.format) THEN input.format[1]
                         ELSE TerseTokens), <<>>))

\* Mutant of buf_init: a prolog in the input constructs a Document, buffer
\* expression or not.
buf_init_prolog_first(input) ==
    IF IsSome(input.prolog)
    THEN Let(input.prolog[1], LAMBDA prolog :
         IF prolog.version \notin {S_1_0, S_1_1}
         THEN Err("invalid version '{other}'", <<prolog.version>>, None, FALSE,
                  <<>>)
         ELSE Ok(StmtNew(IF prolog.version = S_1_0 THEN "V1_0" ELSE "V1_1",
                         prolog.standalone,
                         IF IsSome(input.format) THEN input.format[1]
                         ELSE TerseTokens), <<>>))
    ELSE IF IsSome(input.buffer)
    THEN Ok(Stmt("bind", <<>>, NoArg, input.buffer[1]), <<>>)
    ELSE Err("you have to specify either a buffer to write into or an XML prolo",
             <<>>, None, FALSE, <<>>)

\* The statement emit starts the expansion with.
buf_init(input) ==
    IF IsSome(input.buffer)
    THEN Ok(Stmt("bind", <<>>, NoArg, input.buffer[1]), <<>>)
    ELSE IF IsNone(input.prolog)
    THEN Err("you have to specify either a buffer to write into or an XML prolo",
             <<>>, None, FALSE, <<>>)
    ELSE Let(input.prolog[1], LAMBDA prolog :
         IF prolog.version \notin {S_1_0, S_1_1}
         THEN Err("invalid version '{other}'", <<prolog.version>>, None, FALSE,
                  <<>>)
         ELSE Ok(StmtNew(IF prolog.version = S_1_0 THEN "V1_0" ELSE "V1_1",
                         prolog.standalone,
                         IF IsSome(input.format) THEN input.format[1]
                         ELSE TerseTokens), <<>>))

\* emit.
emit(input) ==
    Try(buf_init(input), LAMBDA init :
        Ok(<<init.val>> \o emit_element(input.root), <<>>))

\* run (macros/src/lib.rs): the expansion, or the compile_error! of an Error.
run(tokens) ==
    Try(parse_input(WithSpans(tokens, <<>>)), LAMBDA input : emit(input.val))

---------------------------------------------------------------------------
(* The Document as state, and one action per operation. *)

self == [buf |-> buf, depth |-> depth, format |-> format, panicked |-> FALSE]

NoName == <<>>
NoValue == <<>>
NoPairs == <<>>
Call(op, name, value, pairs) ==
    [op |-> op, name |-> name, value |-> value, pairs |-> pairs]

\* The Document after a call that took it from `self` to d.
Written(d, call) ==
    /\ buf' = d.buf
    /\ depth' = d.depth
    /\ format' = d.format
    /\ status' = IF d.panicked THEN "panicked" ELSE "ok"
    /\ calls' = Append(calls, call)
    /\ prevBuf' = buf
    /\ prevDepth' = depth
    /\ UNCHANGED <<ctor, val>>

\* The state after a call made by hand-written code.
Becomes(d, call) == Written(d, call) /\ UNCHANGED macro

\* No xml! invocation is involved.
NoMacro ==
    /\ header = <<>>
    /\ markup = <<>>
    /\ phase = "none"
    /\ program = <<>>
    /\ pc = 0
    /\ start = [buf |-> <<>>, depth |-> 0]
    /\ parsed = <<>>
    /\ lookahead = <<>>
    /\ reads = <<>>

Indent2 == <<" ", " ">>
Formats == {Terse, Pretty(Indent2), Pretty(<<"\t">>)}
Versions == {"V1_0", "V1_1"}
Standalones == {"None", "Some(true)", "Some(false)"}

N_foo == <<"f", "o", "o">>
N_n == <<"n">>
N_a == <<"a">>
N_a_b == <<"a", " ", "b">>
V_hi == <<"h", "i">>
V_x == <<"x">>
V_special == <<"\"", "<", "&", ">">>

DocNames == {N_foo, N_n}
AttrNames == {N_a}
DocValues == {V_hi, V_special}
DocBatches == {<<>>, << <<N_a, V_special>> >>, << <<N_a, V_x>>, <<N_a_b, V_x>> >>}
FillNames == {N_a, N_a_b}
FillValues == {V_x, V_special}
FillPairs == {<<n, v>> : n \in FillNames, v \in FillValues}
Batches == SeqsUpTo(FillPairs, MaxBatch)

InitDoc(version, standalone, fmt) ==
    LET d == new(version, standalone, fmt)
    IN  /\ buf = d.buf
        /\ depth = d.depth
        /\ format = d.format
        /\ status = "ok"
        /\ ctor = [version |-> version, standalone |-> standalone]
        /\ calls = <<>>
        /\ prevBuf = <<>>
        /\ prevDepth = 0

CanCall == status = "ok" /\ Len(calls) < MaxCalls

OpenTag ==
    \E n \in DocNames :
        CanCall /\ Becomes(open_tag(self, n), Call("open_tag", n, NoValue, NoPairs))

Attr ==
    \E n \in AttrNames, v \in DocValues :
        CanCall /\ Becomes(attr(self, n, v), Call("attr", n, v, NoPairs))

Attrs ==
    \E ps \in DocBatches :
        CanCall /\ Becomes(attrs(self, ps), Call("attrs", NoName, NoValue, ps))

CloseStartTag ==
    CanCall /\ Becomes(close_start_tag(self),
                       Call("close_start_tag", NoName, NoValue, NoPairs))

CloseEmptyElemTag ==
    CanCall /\ Becomes(close_empty_elem_tag(self),
                       Call("close_empty_elem_tag", NoName, NoValue, NoPairs))

EndTag ==
    \E n \in DocNames :
        CanCall /\ Becomes(end_tag(self, n), Call("end_tag", n, NoValue, NoPairs))

Text ==
    \E v \in DocValues :
        CanCall /\ Becomes(text(self, v), Call("text", NoName, v, NoPairs))

\* Hand-written code calling the Document: any operation, in any order.
InitDocCalls ==
    /\ \E version \in Versions, standalone \in Standalones, fmt \in Formats :
           InitDoc(version, standalone, fmt)
    /\ val = <<>>
    /\ NoMacro

NextDoc ==
    \/ OpenTag
    \/ Attr
    \/ Attrs
    \/ CloseStartTag
    \/ CloseEmptyElemTag
    \/ EndTag
    \/ Text

SpecDoc == InitDocCalls /\ [][NextDoc]_vars

---------------------------------------------------------------------------
(* Escaping runs: one value, written once as an attribute value or as text. *)

EscChars == {"<", ">", "&", "\"", "'", "l", "t", ";"}
EscValues == SeqsUpTo(EscChars, MaxLen)

InitEsc ==
    /\ \E fmt \in {Terse, Pretty(Indent2)} : InitDoc("V1_0", "None", fmt)
    /\ val \in EscValues
    /\ NoMacro

EscAttr ==
    /\ calls = <<>>
    /\ Becomes(attr(self, N_a, val), Call("attr", N_a, val, NoPairs))

EscText ==
    /\ calls = <<>>
    /\ Becomes(text(self, val), Call("text", NoName, val, NoPairs))

NextEsc ==
    \/ EscAttr
    \/ EscText

SpecEsc == InitEsc /\ [][NextEsc]_vars

---------------------------------------------------------------------------
(* Attribute batches: a start tag is open, and attrs is called once with
   any batch of up to MaxBatch pairs. *)

InitFill ==
    /\ \E version \in Versions, standalone \in Standalones, fmt \in Formats :
           LET d == open_tag(new(version, standalone, fmt), N_foo)
           IN  /\ buf = d.buf
               /\ depth = d.depth
               /\ format = d.format
               /\ status = "ok"
               /\ ctor = [version |-> version, standalone |-> standalone]
               /\ calls = <<Call("open_tag", N_foo, NoValue, NoPairs)>>
               /\ prevBuf = new(version, standalone, fmt).buf
               /\ prevDepth = 0
    /\ val = <<>>
    /\ NoMacro

FillAttrs ==
    \E ps \in Batches :
        /\ status = "ok"
        /\ Len(calls) = 1
        /\ Becomes(attrs(self, ps), Call("attrs", NoName, NoValue, ps))

NextFill == FillAttrs

SpecFill == InitFill /\ [][NextFill]_vars

---------------------------------------------------------------------------
(* xml! invocations: the input is written, the macro expands it (run), the
   compiler checks the expansion against the host program, and the expansion
   runs, one Document call at a time. *)

N_b == <<"b">>
N_item == <<"i", "t", "e", "m">>
N_length == <<"l", "e", "n", "g", "t", "h">>
S_make_items == <<"m", "a", "k", "e", "_", "i", "t", "e", "m", "s">>
S_indentation ==
    <<"i", "n", "d", "e", "n", "t", "a", "t", "i", "o", "n">>
S_some_condition ==
    <<"s", "o", "m", "e", "_", "c", "o", "n", "d", "i", "t", "i", "o", "n">>
N_x == <<"x">>
N_y == <<"y">>

LT == Punct("<")
GT == Punct(">")
SL == Punct("/")
EQ == Punct("=")
QM == Punct("?")
HostExpr == Group("Brace", <<Ident(<<"e">>)>>)

\* xml!(d, <b/>); xml!(d, <a>"hi"</a>);
ContinuationBody ==
    <<Ident(S_xml), Punct("!"),
      Group("Parenthesis", <<Ident(<<"d">>), Punct(","), LT, Ident(N_b), SL, GT>>),
      Punct(";"),
      Ident(S_xml), Punct("!"),
      Group("Parenthesis", <<Ident(<<"d">>), Punct(","), LT, Ident(N_a), GT,
                             StrLit(V_hi), LT, SL, Ident(N_a), GT>>),
      Punct(";")>>

P_start_a == <<LT, Ident(N_a), GT>>
P_start_b == <<LT, Ident(N_b), GT>>
P_empty_b == <<LT, Ident(N_b), SL, GT>>
P_start_attrs == <<LT, Ident(N_a), Ident(N_x), EQ, StrLit(V_hi),
                   Ident(N_y), EQ, HostExpr, GT>>
P_end_a == <<LT, SL, Ident(N_a), GT>>
P_end_b == <<LT, SL, Ident(N_b), GT>>
P_end == <<LT, SL, GT>>
P_text == <<StrLit(V_hi)>>
P_text_expr == <<HostExpr>>
P_closure == <<Group("Brace", <<Punct("|"), Ident(<<"d">>), Punct("|")>>
                              \o ContinuationBody)>>

Pieces == {P_start_a, P_start_b, P_empty_b, P_start_attrs, P_end_a, P_end_b,
           P_end, P_text, P_text_expr, P_closure}

H_none == <<>>
H_append == <<Ident(<<"d", "o", "c">>), Punct(",")>>
H_new == <<LT, QM, Ident(S_xml), Ident(S_version), EQ, StrLit(S_1_0), QM, GT>>
H_pretty ==
    <<Punct("#"), Group("Bracket", <<Ident(S_format), EQ,
                                     Ident(<<"p", "r", "e", "t", "t", "y">>)>>),
      LT, QM, Ident(S_xml), Ident(S_version), EQ, StrLit(S_1_1),
      Ident(S_encoding), EQ, StrLit(S_UTF8), QM, GT>>
H_standalone ==
    <<LT, QM, Ident(S_xml), Ident(S_version), EQ, StrLit(S_1_0),
      Ident(S_encoding), EQ, StrLit(S_UTF8),
      Ident(S_standalone), EQ, StrLit(<<"y", "e", "s">>), QM, GT>>

Headers == {H_none, H_append, H_new, H_pretty, H_standalone}

RECURSIVE Flatten(_)
Flatten(pieces) ==
    IF Len(pieces) = 0 THEN <<>> ELSE Head(pieces) \o Flatten(Tail(pieces))

\* The token stream handed to the macro.
Input == header \o Flatten(markup)

\* The input can still become one the parser accepts: it is accepted as it
\* stands, or the parser ran out of tokens.
Unfinished(r) == ~IsOk(r) /\ r.atEnd
ViableResult(r) == IsOk(r) \/ Unfinished(r)
Viable(tokens) == ViableResult(parse_input(WithSpans(tokens, <<>>)))

\* The host program the invocation stands in.  It has the crate ogrim
\* with xml and Format in scope, the local variables `e` (a &str), `Terse`
\* and `pretty` (Formats), `some_condition` (true) and `doc` (a &mut
\* Document), and the function make_items of the documentation.
\*
\* The compiler's answer on a piece of host code is Some(x), None for a
\* compile error, or Outside for code that is not of the forms below,
\* about which the model says nothing.
Outside == <<<<>>, <<>>>>
IsOutside(o) == Len(o) = 2
Then(o, K(_)) == IF IsSome(o) THEN K(o[1]) ELSE o

\* Keywords of every edition, which are no names, and the words that are
\* keywords in some editions.
Keywords ==
    {<<"a", "s">>, <<"b", "r", "e", "a", "k">>, <<"c", "o", "n", "s", "t">>,
     <<"c", "o", "n", "t", "i", "n", "u", "e">>, <<"c", "r", "a", "t", "e">>,
     <<"e", "l", "s", "e">>, <<"e", "n", "u", "m">>,
     <<"e", "x", "t", "e", "r", "n">>, <<"f", "a", "l", "s", "e">>,
     <<"f", "n">>, <<"f", "o", "r">>, <<"i", "f">>, <<"i", "m", "p", "l">>,
     <<"i", "n">>, <<"l", "e", "t">>, <<"l", "o", "o", "p">>,
     <<"m", "a", "t", "c", "h">>, <<"m", "o", "d">>, <<"m", "o", "v", "e">>,
     <<"m", "u", "t">>, <<"p", "u", "b">>, <<"r", "e", "f">>,
     <<"r", "e", "t", "u", "r", "n">>, <<"s", "e", "l", "f">>,
     <<"S", "e", "l", "f">>, <<"s", "t", "a", "t", "i", "c">>,
     <<"s", "t", "r", "u", "c", "t">>, <<"s", "u", "p", "e", "r">>,
     <<"t", "r", "a", "i", "t">>, <<"t", "r", "u", "e">>,
     <<"t", "y", "p", "e">>, <<"u", "n", "s", "a", "f", "e">>,
     <<"u", "s", "e">>, <<"w", "h", "e", "r", "e">>,
     <<"w", "h", "i", "l", "e">>, <<"a", "b", "s", "t", "r", "a", "c", "t">>,
     <<"b", "e", "c", "o", "m", "e">>, <<"b", "o", "x">>, <<"d", "o">>,
     <<"f", "i", "n", "a", "l">>, <<"m", "a", "c", "r", "o">>,
     <<"o", "v", "e", "r", "r", "i", "d", "e">>, <<"p", "r", "i", "v">>,
     <<"t", "y", "p", "e", "o", "f">>, <<"u", "n", "s", "i", "z", "e", "d">>,
     <<"v", "i", "r", "t", "u", "a", "l">>, <<"y", "i", "e", "l", "d">>}
EditionKeywords ==
    {<<"a", "s", "y", "n", "c">>, <<"a", "w", "a", "i", "t">>,
     <<"d", "y", "n">>, <<"t", "r", "y">>, <<"g", "e", "n">>}
IsName(tt) ==
    /\ tt.kind = "Ident"
    /\ tt.text \notin Keywords \cup EditionKeywords \cup {<<"_">>}
    /\ \A i \in 1..Len(tt.text) : tt.text[i] # "#"
IsKeyword(tt) == tt.kind = "Ident" /\ tt.text \in Keywords
\* A raw identifier r#name, and the name it stands for; crate, self, super,
\* Self and _ cannot be raw.
IsRaw(tt) ==
    /\ tt.kind = "Ident" /\ Len(tt.text) > 2
    /\ tt.text[1] = "r" /\ tt.text[2] = "#"
Unraw(tt) ==
    IF IsRaw(tt) THEN SubSeq(tt.text, 3, Len(tt.text)) ELSE tt.text
NeverRaw ==
    {<<"c", "r", "a", "t", "e">>, <<"s", "e", "l", "f">>,
     <<"s", "u", "p", "e", "r">>, <<"S", "e", "l", "f">>, <<"_">>}
\* The variants of the prelude: as a pattern each names the variant, so
\* that no let and no closure argument binds it.
PreludeVariants ==
    {<<"N", "o", "n", "e">>, <<"S", "o", "m", "e">>, <<"O", "k">>,
     <<"E", "r", "r">>}
S_Terse == <<"T", "e", "r", "s", "e">>
S_pretty == <<"p", "r", "e", "t", "t", "y">>
S_buf == <<"b", "u", "f">>
Word(tt, s) == tt.kind = "Ident" /\ tt.text = s

IsIdent(tokens, s) == Len(tokens) = 1 /\ Word(tokens[1], s)

\* The path separator `::` at index i: two colons, the first one Joint.
PathSep(tokens, i) ==
    /\ Len(tokens) > i
    /\ is_punct(tokens[i], ":") /\ tokens[i].spacing = "Joint"
    /\ is_punct(tokens[i + 1], ":")

\* The tokens of `ogrim::` or `::ogrim::` the tokens begin with.
CratePath(tokens) ==
    IF /\ Len(tokens) >= 3 /\ Word(tokens[1], <<"o", "g", "r", "i", "m">>)
       /\ PathSep(tokens, 2)
    THEN 3
    ELSE IF /\ Len(tokens) >= 5
            /\ PathSep(tokens, 1)
            /\ Word(tokens[3], <<"o", "g", "r", "i", "m">>)
            /\ PathSep(tokens, 4)
    THEN 5
    ELSE 0

\* A decimal integer literal written without sign, suffix or leading zero
\* that fits the default integer type.
IsPlainInteger(tt) ==
    /\ tt.kind = "Literal" /\ tt.lit = "num"
    /\ Len(tt.text) \in 1..9
    /\ \A i \in 1..Len(tt.text) : tt.text[i] \in Digit09
    /\ (Len(tt.text) > 1 => tt.text[1] # "0")
\* A literal whose Display text the model knows.
IsPlainLiteral(tt) ==
    /\ tt.kind = "Literal"
    /\ (tt.lit \in {"str", "char"} \/ IsPlainInteger(tt))

\* What Display writes for a value expression of the host program:
\* Some(text), or None for any other expression.  some_condition is true.
HostValue(tokens) ==
    IF IsIdent(tokens, <<"e">>) THEN Some(V_special)
    ELSE IF IsIdent(tokens, S_some_condition) THEN Some(<<"t", "r", "u", "e">>)
    ELSE IF Len(tokens) = 1 /\ tokens[1].kind = "Ident"
            /\ tokens[1].text \in {<<"t", "r", "u", "e">>,
                                   <<"f", "a", "l", "s", "e">>}
    THEN Some(tokens[1].text)
    ELSE IF Len(tokens) = 1 /\ IsPlainLiteral(tokens[1])
    THEN Some(tokens[1].text)
    ELSE None

\* The Format a format expression of the host program evaluates to:
\* Some(format), or None for any other expression.
HostFormat(tokens) ==
    IF IsIdent(tokens, S_Terse) THEN Some(Terse)
    ELSE IF IsIdent(tokens, S_pretty)
    THEN Some(Pretty(Indent2))
    ELSE Let(SubSeq(tokens, CratePath(tokens) + 1, Len(tokens)), LAMBDA t :
         IF ~(/\ Len(t) >= 4
              /\ Word(t[1], <<"F", "o", "r", "m", "a", "t">>)
              /\ PathSep(t, 2))
         THEN None
         ELSE IF Len(t) = 4 /\ Word(t[4], <<"T", "e", "r", "s", "e">>)
         THEN Some(Terse)
         ELSE IF /\ Len(t) = 5
                 /\ Word(t[4], <<"P", "r", "e", "t", "t", "y">>)
                 /\ t[5].kind = "Group" /\ t[5].delim = "Brace"
                 /\ Len(t[5].inner) \in {3, 4}
                 /\ Word(t[5].inner[1], S_indentation)
                 /\ is_punct(t[5].inner[2], ":")
                 /\ t[5].inner[3].kind = "Literal"
                 /\ t[5].inner[3].lit = "str"
                 /\ (Len(t[5].inner) = 4 => is_punct(t[5].inner[4], ","))
         THEN Some(Pretty(t[5].inner[3].text))
         ELSE None)
HostScope == {<<"d", "o", "c">>}
\* The Documents `doc` can be: just constructed, or inside an element `n`
\* whose start tag is closed.
HostDocuments ==
    LET fresh == {new("V1_0", "None", fmt) : fmt \in {Terse, Pretty(Indent2)}}
    IN  fresh \cup {close_start_tag(open_tag(d, N_n)) : d \in fresh}

\* The local names at a place of the host code: a Document variable is
\* "this" when it is the Document the outermost invocation writes to and
\* "other" when it is another one; a name bound by a let is "value"; the
\* `buf` of the enclosing expansion, which the tokens of a continuation
\* body can name (both have call-site spans), is "opaque": code that uses
\* it is host code the model does not follow.  A variable an enclosing
\* invocation has borrowed as its `buf` is not among them.
Bound(scope, name, what) ==
    [n \in (DOMAIN scope) \cup {name} |->
        IF n = name THEN what ELSE scope[n]]
Without(scope, name) == [n \in (DOMAIN scope) \ {name} |-> scope[n]]

\* The variable a Document expression names: `v`, `(v)` and `&mut *v`.
\* `_` is no expression.
RECURSIVE DocumentExpr(_)
DocumentExpr(tokens) ==
    IF Len(tokens) = 1 /\ IsName(tokens[1]) THEN Some(tokens[1].text)
    ELSE IF IsIdent(tokens, <<"_">>) THEN None
    ELSE IF /\ Len(tokens) = 1 /\ tokens[1].kind = "Group"
            /\ tokens[1].delim = "Parenthesis"
    THEN DocumentExpr(tokens[1].inner)
    ELSE IF /\ Len(tokens) >= 4 /\ is_punct(tokens[1], "&")
            /\ Word(tokens[2], <<"m", "u", "t">>) /\ is_punct(tokens[3], "*")
    THEN DocumentExpr(SubSeq(tokens, 4, Len(tokens)))
    ELSE Outside

\* The Document variable of the scope the expression names.
Resolve(tokens, scope) ==
    Then(DocumentExpr(tokens), LAMBDA name :
         IF name \in DOMAIN scope /\ scope[name] = "opaque" THEN Outside
         ELSE IF name \in DOMAIN scope /\ scope[name] # "value"
         THEN Some(name) ELSE None)

\* The value expression of an attribute or a text, where it stands: a
\* Document is not Display, an unknown name is an error.
ValueAt(tokens, scope) ==
    IF Len(tokens) = 1 /\ tokens[1].kind = "Ident"
       /\ tokens[1].text \in DOMAIN scope
    THEN (IF scope[tokens[1].text] \in {"value", "opaque"} THEN Outside
          ELSE None)
    ELSE IF IsSome(HostValue(tokens)) THEN HostValue(tokens)
    ELSE IF Len(tokens) = 1 /\ IsName(tokens[1]) THEN None
    ELSE Outside

\* The format expression, where it stands.
FormatAt(tokens, scope) ==
    IF Len(tokens) = 1 /\ tokens[1].kind = "Ident"
       /\ tokens[1].text \in DOMAIN scope
    THEN (IF scope[tokens[1].text] \in {"value", "opaque"} THEN Outside
          ELSE None)
    ELSE IF IsSome(HostFormat(tokens)) THEN HostFormat(tokens)
    ELSE IF Len(tokens) = 1 /\ IsName(tokens[1]) THEN None
    ELSE Outside

\* The condition of an if: some_condition, true, false, `!c` and `(c)`.
RECURSIVE Condition(_, _)
Condition(tokens, scope) ==
    IF Len(tokens) = 1 /\ tokens[1].kind = "Ident"
    THEN (CASE tokens[1].text \in DOMAIN scope ->
                 IF scope[tokens[1].text] \in {"value", "opaque"}
                 THEN Outside ELSE None
            [] tokens[1].text \in {S_some_condition, <<"t", "r", "u", "e">>} ->
                 Some(TRUE)
            [] tokens[1].text = <<"f", "a", "l", "s", "e">> -> Some(FALSE)
            [] IsName(tokens[1]) -> None
            [] OTHER -> Outside)
    ELSE IF /\ Len(tokens) = 1 /\ tokens[1].kind = "Group"
            /\ tokens[1].delim = "Parenthesis"
    THEN Condition(tokens[1].inner, scope)
    ELSE IF Len(tokens) >= 2 /\ is_punct(tokens[1], "!")
    THEN Then(Condition(Tail(tokens), scope), LAMBDA c : Some(~c))
    ELSE Outside

\* The statements of a continuation body, which is host code.  The forms:
\* an xml invocation with any of the three delimiters, named with or
\* without its crate; a call of make_items; `let name = literal;`;
\* `if condition { .. }` without else; `()`; the empty statement `;`.
IsInvocation(tokens) ==
    Let(CratePath(tokens), LAMBDA p :
        /\ Len(tokens) >= p + 3
        /\ Word(tokens[p + 1], S_xml)
        /\ is_punct(tokens[p + 2], "!")
        /\ tokens[p + 3].kind = "Group"
        /\ tokens[p + 3].delim \in {"Parenthesis", "Bracket", "Brace"})
IsCall(tokens) ==
    /\ Len(tokens) >= 2
    /\ Word(tokens[1], S_make_items)
    /\ tokens[2].kind = "Group" /\ tokens[2].delim = "Parenthesis"
IsLet(tokens) ==
    /\ Len(tokens) >= 4
    /\ Word(tokens[1], <<"l", "e", "t">>)
    /\ tokens[2].kind = "Ident"
    /\ is_punct(tokens[3], "=")
    /\ tokens[4].kind = "Literal"
\* The index of the block of an if: the first group in braces.
RECURSIVE BlockAt(_, _)
BlockAt(tokens, i) ==
    IF i > Len(tokens) THEN 0
    ELSE IF tokens[i].kind = "Group" /\ tokens[i].delim = "Brace" THEN i
    ELSE BlockAt(tokens, i + 1)
IsIf(tokens) ==
    /\ Len(tokens) >= 3
    /\ Word(tokens[1], <<"i", "f">>)
    /\ BlockAt(tokens, 3) > 0
IsUnit(tokens) ==
    /\ Len(tokens) >= 1
    /\ tokens[1].kind = "Group" /\ tokens[1].delim = "Parenthesis"
    /\ Len(tokens[1].inner) = 0
IsEmpty(tokens) == Len(tokens) >= 1 /\ is_punct(tokens[1], ";")

\* The form of the statement the tokens begin with and the number of its
\* tokens before the semicolon, or None.
StmtKind(tokens) ==
    CASE IsEmpty(tokens) -> Some(<<"empty", 0>>)
      [] IsInvocation(tokens) -> Some(<<"xml", CratePath(tokens) + 3>>)
      [] IsCall(tokens) -> Some(<<"call", 2>>)
      [] IsLet(tokens) -> Some(<<"let", 4>>)
      [] IsIf(tokens) -> Some(<<"if", BlockAt(tokens, 3)>>)
      [] IsUnit(tokens) -> Some(<<"unit", 1>>)
      [] OTHER -> None

\* The statement of n tokens the tokens begin with.  `semicolon`: one
\* follows it; `tail`: it is the last of the body; `block`: it needs no
\* semicolon to end.
HostStmt(kind, tokens, n) ==
    [kind |-> kind,
     input |-> IF kind \in {"xml", "if"} THEN tokens[n].inner ELSE <<>>,
     arg |-> CASE kind = "call" -> tokens[2].inner
               [] kind = "let" -> <<tokens[2], tokens[4]>>
               [] kind = "if" -> SubSeq(tokens, 2, n - 1)
               [] OTHER -> <<>>,
     semicolon |-> Len(tokens) > n /\ is_punct(tokens[n + 1], ";"),
     tail |-> Len(tokens) = n,
     block |-> kind = "if" \/ (kind = "xml" /\ tokens[n].delim = "Brace")]
Ended(st) == st.semicolon \/ st.tail \/ (st.block /\ st.kind # "let")
Width(st, n) == IF st.semicolon THEN n + 1 ELSE n

\* A statement that is not ended: a compile error when a let, or when the
\* next token begins a statement; else code of no form above.
Unended(st, tokens, n) ==
    IF st.kind = "let" THEN (IF st.tail THEN None ELSE Outside)
    ELSE IF IsSome(StmtKind(SubSeq(tokens, n + 1, Len(tokens))))
            /\ tokens[n + 1].kind = "Ident"
    THEN None
    ELSE Outside

RECURSIVE BodyStatements(_)
BodyStatements(tokens) ==
    IF Len(tokens) = 0 THEN Some(<<>>)
    ELSE Let(StmtKind(tokens), LAMBDA k :
         IF IsNone(k) THEN Outside
         ELSE Let(HostStmt(k[1][1], tokens, k[1][2]), LAMBDA st :
              IF st.kind = "if" /\ Len(tokens) > k[1][2]
                 /\ Word(tokens[k[1][2] + 1], <<"e", "l", "s", "e">>)
              THEN Outside
              ELSE IF ~Ended(st) \/ (st.kind = "let" /\ ~st.semicolon)
              THEN Unended(st, tokens, k[1][2])
              ELSE Then(BodyStatements(SubSeq(tokens, Width(st, k[1][2]) + 1,
                                              Len(tokens))), LAMBDA rest :
                        Some(<<st>> \o rest))))

\* fn make_items(doc: &mut Document): one invocation for each s in data,
\* written here with s replaced by its value.
data == <<<<"f", "o", "o">>, <<"b", "a", "r">>, <<"b", "a", "z">>>>
make_items ==
    [i \in 1..Len(data) |->
        [kind |-> "xml",
         input |-> <<Ident(<<"d", "o", "c">>), Punct(","),
                     LT, Ident(N_item), Ident(N_length), EQ, StrLit(<<"3">>), GT,
                     Group("Brace", <<StrLit(data[i])>>),
                     LT, SL, Ident(N_item), GT>>,
         arg |-> <<>>, semicolon |-> TRUE, tail |-> FALSE, block |-> FALSE]]

\* Two parts of a program, one after the other: the first that is a
\* compile error or host code the model does not follow decides.
Both(here, rest) ==
    IF ~IsSome(here) THEN here
    ELSE IF ~IsSome(rest) THEN rest
    ELSE Some(here[1] \o rest[1])

\* The names at the outermost invocation: `doc` is this Document when the
\* invocation is given it as buffer.
TopScope(stmts) ==
    [n \in HostScope |->
        IF stmts[1].op = "bind"
           /\ \E r \in {DocumentExpr(stmts[1].tokens)} : IsSome(r) /\ r[1] = n
        THEN "this" ELSE "other"]

\* A statement of the expansion of an invocation that writes to `target`:
\* it is part of the program when that is this Document.
Runs(s, level, env) ==
    IF env.target = "this" THEN Some(<<[stmt |-> s, level |-> level]>>)
    ELSE Some(<<>>)

\* The names in a continuation body: the expansion's `buf`, and the
\* argument, which `let arg = &mut buf;` binds to the invocation's
\* Document; `_` binds nothing, a keyword is a syntax error and a variant
\* is no binding.  Terse may be a variant the host has imported.
BodyScope(arg, env) ==
    Let(Bound(env.scope, S_buf, "opaque"), LAMBDA scope :
        IF arg = <<"_">> THEN Some(scope)
        ELSE IF arg \in Keywords \cup PreludeVariants THEN None
        ELSE IF ~IsName(Ident(arg)) \/ arg = S_Terse THEN Outside
        ELSE Some(Bound(scope, arg, env.target)))

\* The compiler on the expansion: Some(the statements on this Document in
\* the order they run, each with the nesting level of the invocation it
\* comes from), the host code of continuation bodies run in place; None
\* when the expansion does not compile.  env holds the Document the
\* invocation writes to, the names where it stands and the scope of its
\* continuation bodies.
RECURSIVE Link(_, _, _), LinkStmt(_, _, _), LinkBody(_, _, _),
          LinkInvocation(_, _, _), LinkHostStmt(_, _, _)
Link(stmts, level, env) ==
    IF Len(stmts) = 0 THEN Some(<<>>)
    ELSE Both(LinkStmt(Head(stmts), level, env),
              Link(Tail(stmts), level, env))

LinkStmt(s, level, env) ==
    CASE s.op = "new" ->
           IF IsSome(s.standalone) THEN None
           ELSE Then(FormatAt(s.tokens, env.names), LAMBDA fmt :
                     Runs(s, level, env))
      [] s.op = "bind" ->
           IF level = 0 THEN Runs(s, level, env) ELSE Some(<<>>)
      [] s.op = "closure" ->
           Then(BodyScope(s.name, env), LAMBDA scope :
           Then(BodyStatements(s.tokens), LAMBDA body :
                LinkBody(body, level + 1, scope)))
      [] s.op \in {"attr", "text"} ->
           IF s.arg.kind # "Expr" THEN Runs(s, level, env)
           ELSE Then(ValueAt(s.arg.tokens, env.names), LAMBDA v :
                     Runs(s, level, env))
      [] OTHER -> Runs(s, level, env)

\* The expansion of one invocation.  One that constructs a Document writes
\* to that one: to this Document only when it is the outermost.  One given
\* a buffer writes to the Document the variable names and keeps the
\* variable borrowed to its end.
LinkInvocation(stmts, level, scope) ==
    IF stmts[1].op = "new"
    THEN Link(stmts, level,
              [target |-> IF level = 0 THEN "this" ELSE "other",
               names |-> scope, scope |-> scope])
    ELSE Then(Resolve(stmts[1].tokens, scope), LAMBDA v :
              Link(stmts, level,
                   [target |-> scope[v], names |-> scope,
                    scope |-> Without(scope, v)]))

\* `let name = literal;`: a keyword is a syntax error and a variant of
\* the prelude a pattern the literal does not match; r#name binds name.
LinkLet(name, literal) ==
    IF IsRaw(name)
    THEN (IF Unraw(name) \in NeverRaw \cup PreludeVariants THEN None
          ELSE IF Unraw(name) = S_Terse \/ ~IsPlainLiteral(literal) THEN Outside
          ELSE Some(<<>>))
    ELSE IF IsKeyword(name) \/ name.text \in PreludeVariants THEN None
    ELSE IF name.text = S_Terse THEN Outside
    ELSE IF ~IsName(name) /\ name.text # <<"_">> THEN Outside
    ELSE IF ~IsPlainLiteral(literal) THEN Outside
    ELSE Some(<<>>)

\* The argument list of a call: one expression, a comma after it or not.
Argument(tokens) ==
    IF Len(tokens) > 1 /\ is_punct(tokens[Len(tokens)], ",")
    THEN SubSeq(tokens, 1, Len(tokens) - 1) ELSE tokens

\* One statement of a continuation body.  An invocation without its
\* semicolon at the end of a block is the value of the block, which has
\* to be ().
LinkHostStmt(st, level, scope) ==
    CASE st.kind = "xml" ->
           Let(run(st.input), LAMBDA r :
               IF ~IsOk(r) THEN None
               ELSE IF r.val[1].op = "new" /\ ~st.semicolon
               THEN (IF st.tail THEN None ELSE Outside)
               ELSE LinkInvocation(r.val, level, scope))
      [] st.kind = "call" ->
           IF S_make_items \in DOMAIN scope
           THEN (IF scope[S_make_items] \in {"value", "opaque"} THEN Outside
                 ELSE None)
           ELSE Then(Resolve(Argument(st.arg), scope), LAMBDA v :
                     LinkBody(make_items, level,
                              [n \in {<<"d", "o", "c">>} |-> scope[v]]))
      [] st.kind = "let" -> LinkLet(st.arg[1], st.arg[2])
      [] st.kind = "if" ->
           Then(Condition(st.arg, scope), LAMBDA c :
           Then(BodyStatements(st.input), LAMBDA body :
           Then(LinkBody(body, level, scope), LAMBDA calls_made :
                IF c THEN Some(calls_made) ELSE Some(<<>>))))
      [] OTHER -> Some(<<>>)

\* The statements of a body in turn; a let puts its name in the scope of
\* the statements after it.
LinkBody(body, level, scope) ==
    IF Len(body) = 0 THEN Some(<<>>)
    ELSE Both(LinkHostStmt(Head(body), level, scope),
              LinkBody(Tail(body), level,
                       IF Head(body).kind = "let"
                          /\ Head(body).arg[1].text # <<"_">>
                       THEN Bound(scope, Unraw(Head(body).arg[1]), "value")
                       ELSE scope))

\* The uses of the word s in the tokens, those inside groups included.
RECURSIVE Uses(_, _)
Uses(tokens, s) ==
    IF Len(tokens) = 0 THEN 0
    ELSE (IF Word(Head(tokens), s) THEN 1
          ELSE IF Head(tokens).kind = "Group" THEN Uses(Head(tokens).inner, s)
          ELSE 0) + Uses(Tail(tokens), s)

\* The outcome of the macro and the compiler on an input: Some(program),
\* None for a compile error, Outside for host code of no form above.
\* A Format is not Copy: the variable `pretty` (and `Terse`, when it is one)
\* is moved into the one Document::new that names it, so an input that names
\* one of them more than once is host code the model does not follow.
Compile(tokens) ==
    Let(run(tokens), LAMBDA r :
        IF ~IsOk(r) THEN None
        ELSE Let(LinkInvocation(r.val, 0, TopScope(r.val)), LAMBDA linked :
             IF IsSome(linked) /\ Uses(tokens, S_pretty) + Uses(tokens, S_Terse) > 1
             THEN Outside ELSE linked))

\* The value of a statement's argument: the literal, or the expression's.
ArgValue(arg) ==
    IF arg.kind = "Literal" THEN arg.s ELSE HostValue(arg.tokens)[1]

InitXml ==
    /\ header \in Headers
    /\ markup = <<>>
    /\ phase = "typing"
    /\ program = <<>>
    /\ pc = 0
    /\ start = [buf |-> <<>>, depth |-> 0]
    /\ parsed = <<>>
    /\ lookahead = <<>>
    /\ reads = <<>>
    /\ buf = <<>>
    /\ depth = 0
    /\ format = Terse
    /\ status = "ok"
    /\ ctor = [version |-> "", standalone |-> ""]
    /\ calls = <<>>
    /\ prevBuf = <<>>
    /\ prevDepth = 0
    /\ val = <<>>

document == <<buf, depth, format, status, ctor, calls, prevBuf, prevDepth, val>>

\* One more piece of markup is written.
Type ==
    /\ phase = "typing"
    /\ Len(markup) < MaxPieces
    /\ Viable(Input)
    /\ \E piece \in Pieces : markup' = Append(markup, piece)
    /\ UNCHANGED <<header, phase, program, pc, start, parsed, lookahead, reads>>
    /\ UNCHANGED document

\* xml and the compiler: the input becomes a program, or a compile error.
\* Host code of no form the model knows is not expanded.
Expand ==
    /\ phase = "typing"
    /\ \E linked \in {Compile(Input)} :
           /\ ~IsOutside(linked)
           /\ IF IsSome(linked)
              THEN phase' = "expanded" /\ program' = linked[1] /\ pc' = 1
              ELSE phase' = "rejected" /\ program' = <<>> /\ pc' = 0
    /\ UNCHANGED <<header, markup, start, parsed, lookahead, reads>>
    /\ UNCHANGED document

AtStmt(op) ==
    /\ pc >= 1
    /\ pc <= Len(program)
    /\ program[pc].stmt.op = op

\* The Document d is the one the expansion's `buf` names from here on.
Begins(d) ==
    /\ buf' = d.buf
    /\ depth' = d.depth
    /\ format' = d.format
    /\ status' = "ok"
    /\ start' = [buf |-> d.buf, depth |-> d.depth]
    /\ phase' = "running"
    /\ pc' = pc + 1
    /\ UNCHANGED <<calls, prevBuf, prevDepth, val, header, markup, program,
                   parsed, lookahead, reads>>

\* let mut buf = ogrim::Document::new(version, standalone, format);
RunNew ==
    /\ phase = "expanded"
    /\ AtStmt("new")
    /\ LET s == program[pc].stmt
       IN  /\ Begins(new(s.version, "None", HostFormat(s.tokens)[1]))
           /\ ctor' = [version |-> s.version, standalone |-> "None"]

\* let mut buf = &mut *doc;
RunBind ==
    /\ phase = "expanded"
    /\ AtStmt("bind")
    /\ \E d \in HostDocuments : Begins(d)
    /\ ctor' = [version |-> "V1_0", standalone |-> "None"]

\* The statement at pc called the Document, taking it from `self` to d.
Ran(d, call) ==
    /\ Written(d, call)
    /\ pc' = pc + 1
    /\ phase' = IF d.panicked THEN "panicked"
                ELSE IF pc = Len(program) THEN "done" ELSE "running"
    /\ UNCHANGED <<header, markup, program, start, parsed, lookahead, reads>>

RunOpenTag ==
    /\ phase = "running"
    /\ AtStmt("open_tag")
    /\ LET n == program[pc].stmt.name
       IN  Ran(open_tag(self, n), Call("open_tag", n, NoValue, NoPairs))

RunAttr ==
    /\ phase = "running"
    /\ AtStmt("attr")
    /\ LET n == program[pc].stmt.name
           v == ArgValue(program[pc].stmt.arg)
       IN  Ran(attr(self, n, v), Call("attr", n, v, NoPairs))

RunCloseStartTag ==
    /\ phase = "running"
    /\ AtStmt("close_start_tag")
    /\ Ran(close_start_tag(self),
           Call("close_start_tag", NoName, NoValue, NoPairs))

RunCloseEmptyElemTag ==
    /\ phase = "running"
    /\ AtStmt("close_empty_elem_tag")
    /\ Ran(close_empty_elem_tag(self),
           Call("close_empty_elem_tag", NoName, NoValue, NoPairs))

RunText ==
    /\ phase = "running"
    /\ AtStmt("text")
    /\ LET v == ArgValue(program[pc].stmt.arg)
       IN  Ran(text(self, v), Call("text", NoName, v, NoPairs))

RunEndTag ==
    /\ phase = "running"
    /\ AtStmt("end_tag")
    /\ LET n == program[pc].stmt.name
       IN  Ran(end_tag(self, n), Call("end_tag", n, NoValue, NoPairs))

NextXml ==
    \/ Type
    \/ Expand
    \/ RunNew
    \/ RunBind
    \/ RunOpenTag
    \/ RunAttr
    \/ RunCloseStartTag
    \/ RunCloseEmptyElemTag
    \/ RunText
    \/ RunEndTag

SpecXml == InitXml /\ [][NextXml]_vars

Spec == SpecDoc

---------------------------------------------------------------------------
(* Vocabulary of the properties. *)

LastCall == calls[Len(calls)]
LastOp == IF calls = <<>> THEN "none" ELSE LastCall.op

\* The calls that returned: all of them but a last one that panicked.
Returned == IF status = "panicked" THEN SubSeq(calls, 1, Len(calls) - 1) ELSE calls
Count(cs, op) == Cardinality({i \in DOMAIN cs : cs[i].op = op})

\* What the last call appended to the buffer.
Appended == SubSeq(buf, Len(prevBuf) + 1, Len(buf))

\* The newline and indentation that end an operation in Pretty format.
TrailingNewline ==
    IF format.pretty THEN <<"\n">> \o Repeat(format.indentation, depth) ELSE <<>>

\* The attribute value as the last attr call wrote it, between the quotes.
AttrValueWritten ==
    SubSeq(buf, Len(prevBuf) + Len(LastCall.name) + 4, Len(buf) - 1)

\* The text content as the last text call wrote it.
TextWritten ==
    SubSeq(buf, Len(prevBuf) + 1, Len(buf) - Len(TrailingNewline))

Entities == { <<"&", "l", "t", ";">>, <<"&", "g", "t", ";">>,
              <<"&", "a", "m", "p", ";">>, <<"&", "q", "u", "o", "t", ";">> }

StartsAt(s, i, e) ==
    /\ i + Len(e) - 1 <= Len(s)
    /\ SubSeq(s, i, i + Len(e) - 1) = e

\* No literal occurrence of a character of `chars`: none of them occurs,
\* except an ampersand that begins an entity.
NoLiteral(s, chars) ==
    \A i \in 1..Len(s) :
        s[i] \in chars => (s[i] = "&" /\ \E e \in Entities : StartsAt(s, i, e))

\* Decoding: each entity replaced by its character, in one pass from the left.
RECURSIVE Unescape(_)
Unescape(s) ==
    IF s = <<>> THEN <<>>
    ELSE IF StartsAt(s, 1, <<"&", "l", "t", ";">>)
         THEN <<"<">> \o Unescape(SubSeq(s, 5, Len(s)))
    ELSE IF StartsAt(s, 1, <<"&", "g", "t", ";">>)
         THEN <<">">> \o Unescape(SubSeq(s, 5, Len(s)))
    ELSE IF StartsAt(s, 1, <<"&", "a", "m", "p", ";">>)
         THEN <<"&">> \o Unescape(SubSeq(s, 6, Len(s)))
    ELSE IF StartsAt(s, 1, <<"&", "q", "u", "o", "t", ";">>)
         THEN <<"\"">> \o Unescape(SubSeq(s, 7, Len(s)))
    ELSE <<s[1]>> \o Unescape(Tail(s))

Occurrences(s, c) == Cardinality({i \in 1..Len(s) : s[i] = c})
Special == {"<", ">", "&", "\""}
HasSpecial(s) == \E i \in 1..Len(s) : s[i] \in Special

---------------------------------------------------------------------------
(* Properties of the Document driven call by call (SpecDoc). *)

\* C2: in every state reached by Document operations from `new`, depth is the
\* number of close_start_tag calls that returned minus the number of end_tag
\* calls that returned; the other operations (open_tag, attr, attrs,
\* close_empty_elem_tag, text) are not counted, so they leave it as it is.
C2_DepthIsOpenStartTags ==
    /\ depth = Count(Returned, "close_start_tag") - Count(Returned, "end_tag")
    /\ (status = "ok" /\ LastOp \in {"open_tag", "attr", "attrs",
                                     "close_empty_elem_tag", "text"})
           => depth = prevDepth

C2_Witness ==
    /\ status = "ok"
    /\ Count(calls, "close_start_tag") = 2
    /\ Count(calls, "end_tag") = 1
    /\ LastOp = "text"
    /\ depth = 1

\* C3: end_tag called at depth 0 panics, with the buffer and the depth as
\* they were before the call; depth is never below 0.
C3_EndTagAtDepthZeroFails ==
    /\ depth >= 0
    /\ (LastOp = "end_tag" /\ prevDepth = 0)
           => (status = "panicked" /\ buf = prevBuf /\ depth = 0)

C3_Witness ==
    /\ LastOp = "end_tag"
    /\ prevDepth = 0
    /\ Count(calls, "close_start_tag") = 1
    /\ Count(calls, "end_tag") = 2
    /\ status = "panicked"

C7_Expected ==
    <<"<","?","x","m","l"," ","v","e","r","s","i","o","n","=","\"","1",".",
      "0","\""," ","e","n","c","o","d","i","n","g","=","\"","U","T","F","-",
      "8","\"","?",">","\n","<","f","o","o",">","\n"," "," ","h","i","\n",
      "<","/","f","o","o",">","\n">>

C7_Case ==
    /\ ctor = [version |-> "V1_0", standalone |-> "None"]
    /\ format = Pretty(<<" ", " ">>)
    /\ calls = << Call("open_tag", N_foo, NoValue, NoPairs),
                  Call("close_start_tag", NoName, NoValue, NoPairs),
                  Call("text", NoName, V_hi, NoPairs),
                  Call("end_tag", N_foo, NoValue, NoPairs) >>

\* C7: Pretty format with two spaces, new(1.0, no standalone), open_tag(foo),
\* close_start_tag, text(hi), end_tag(foo): the buffer is exactly the prolog,
\* a newline, <foo>, the text on its own line indented once, the end tag
\* aligned with the start tag, and a trailing newline.
C7_PrettyExample == C7_Case => (status = "ok" /\ depth = 0 /\ buf = C7_Expected)

C7_Witness == C7_Case /\ status = "ok"

C8_Prolog ==
    <<"<","?","x","m","l"," ","v","e","r","s","i","o","n","=","\"","1",".",
      "0","\""," ","e","n","c","o","d","i","n","g","=","\"","U","T","F","-",
      "8","\"","?",">">>

C8_Case ==
    /\ ctor = [version |-> "V1_0", standalone |-> "None"]
    /\ format = Terse
    /\ Len(calls) = 2
    /\ calls[1].op = "open_tag"
    /\ calls[2].op = "close_empty_elem_tag"

\* C8: Terse format, version 1.0, no standalone: a self-closing root element
\* named n gives exactly the prolog followed by <n/>, with no whitespace or
\* newline anywhere.
C8_TerseEmptyRoot ==
    C8_Case => (status = "ok"
                /\ buf = C8_Prolog \o <<"<">> \o calls[1].name \o <<"/", ">">>)

C8_Witness == C8_Case /\ calls[1].name = N_foo /\ status = "ok"

---------------------------------------------------------------------------
(* Properties of the escaping writer (SpecEsc). *)

\* C4 as stated: for a value containing <, >, & or ", what attr writes as the
\* attribute value and what text writes as text content has no literal
\* occurrence of those four characters.
C4_Original ==
    (LastOp \in {"attr", "text"} /\ HasSpecial(val))
        => NoLiteral(IF LastOp = "attr" THEN AttrValueWritten ELSE TextWritten,
                     Special)

\* C4 as amended: attr writes none of <, >, &, " literally; text writes none
\* of <, >, & literally and writes every " of the value as it is.
C4_EscapedPerOperation ==
    /\ (LastOp = "attr" /\ HasSpecial(val))
           => NoLiteral(AttrValueWritten, Special)
    /\ (LastOp = "text" /\ HasSpecial(val))
           => /\ NoLiteral(TextWritten, {"<", ">", "&"})
              /\ Occurrences(TextWritten, "\"") = Occurrences(val, "\"")

C4_Witness ==
    /\ LastOp = "text"
    /\ val = <<"\"", "<", "&", ">">>
    /\ TextWritten = <<"\"", "&", "l", "t", ";", "&", "a", "m", "p", ";",
                       "&", "g", "t", ";">>

\* C5: decoding the entities of what attr (escape_quote true) or text
\* (escape_quote false) wrote gives back the value, also when the value holds
\* entity-like text.
C5_RoundTrip ==
    /\ LastOp = "attr" => Unescape(AttrValueWritten) = val
    /\ LastOp = "text" => Unescape(TextWritten) = val

C5_Witness ==
    /\ LastOp = "attr"
    /\ val = <<"&", "l", "t", ";">>
    /\ AttrValueWritten = <<"&", "a", "m", "p", ";", "l", "t", ";">>

IsSafe(s, escape_quote) ==
    \A i \in 1..Len(s) :
        s[i] \notin {"<", ">", "&"} /\ (escape_quote => s[i] # "\"")

\* C6: a value with none of <, >, & (and no " where quotes are escaped) is
\* appended as it is, with nothing added by the escaping writer.
C6_SafeTextUnchanged ==
    /\ (LastOp = "attr" /\ IsSafe(val, TRUE))
           => buf = prevBuf \o <<" ">> \o LastCall.name \o <<"=", "\"">>
                    \o val \o <<"\"">>
    /\ (LastOp = "text" /\ IsSafe(val, FALSE))
           => buf = prevBuf \o val \o TrailingNewline

C6_Witness ==
    /\ LastOp = "text"
    /\ val = <<"l", "\"", "'", ";">>
    /\ TextWritten = val

---------------------------------------------------------------------------
(* Properties of attribute batches (SpecFill). *)

\* The position of the first pair whose name is no XML name, 0 if none.
FirstBad(ps) ==
    LET bad == {i \in 1..Len(ps) : ~is_name(ps[i][1])}
    IN  IF bad = {} THEN 0 ELSE CHOOSE i \in bad : \A j \in bad : i <= j

\* ` name="escaped value"` for each pair, written from the character
\* replacements themselves.
RECURSIVE EscapedValue(_)
EscapedValue(v) ==
    IF v = <<>> THEN <<>>
    ELSE (CASE v[1] = "<"  -> <<"&", "l", "t", ";">>
            [] v[1] = ">"  -> <<"&", "g", "t", ";">>
            [] v[1] = "&"  -> <<"&", "a", "m", "p", ";">>
            [] v[1] = "\"" -> <<"&", "q", "u", "o", "t", ";">>
            [] OTHER       -> <<v[1]>>) \o EscapedValue(Tail(v))

RECURSIVE FullyWritten(_)
FullyWritten(ps) ==
    IF ps = <<>> THEN <<>>
    ELSE <<" ">> \o ps[1][1] \o <<"=", "\"">> \o EscapedValue(ps[1][2]) \o <<"\"">>
         \o FullyWritten(Tail(ps))

C10_Case == LastOp = "attrs" /\ FirstBad(LastCall.pairs) > 0

\* C10: attrs given an invalid k-th name hands its caller a recoverable
\* error (it does not panic), with the k-1 earlier pairs fully written.
\* Document::attrs returns () and panics on the invalid name, so the first
\* conjunct fails in every state of the case.
C10_Original ==
    C10_Case =>
        /\ status = "error"
        /\ IsPrefix(FullyWritten(SubSeq(LastCall.pairs, 1,
                                        FirstBad(LastCall.pairs) - 1)), Appended)


---------------------------------------------------------------------------
(* Properties of xml! invocations (SpecXml). *)

\* The expansion ran to its end: every statement of the program has run.
Completed == phase = "done"
OpenTags == Count(calls, "open_tag")
ClosedTags == Count(calls, "end_tag") + Count(calls, "close_empty_elem_tag")
HasContinuationCalls == \E i \in DOMAIN program : program[i].level > 0

\* C1 as stated: for every accepted input, once the driver's calls (those of
\* continuation bodies included) are all made, there are as many open_tag
\* calls as end_tag plus close_empty_elem_tag calls, and depth is 0.
C1_Original ==
    Completed => (OpenTags = ClosedTags /\ depth = 0)

\* C1: for every accepted input whose expansion compiles, once the driver's
\* calls (those of continuation bodies included) are all made, there are as
\* many open_tag calls as end_tag plus close_empty_elem_tag calls, no call has
\* panicked, and depth is what it was before the first call: 0 when the
\* invocation constructed the Document, the depth of the Document appended to
\* otherwise.
C1_BalancedCalls ==
    Completed =>
        /\ status = "ok"
        /\ Len(calls) = Len(program) - 1
        /\ OpenTags = ClosedTags
        /\ depth = start.depth
        /\ (program[1].stmt.op = "new" => depth = 0)

C1_Witness ==
    /\ Completed
    /\ HasContinuationCalls
    /\ OpenTags = 3
    /\ ClosedTags = 3
    /\ start.depth = 1
    /\ depth = 1

\* The positions of the one-token names of end tags: `<` `/` name.
EndNamePositions(tokens) ==
    {i \in 3..Len(tokens) :
        /\ tokens[i].kind = "Ident"
        /\ is_punct(tokens[i - 1], "/")
        /\ is_punct(tokens[i - 2], "<")}
Renamed(tokens, names) ==
    [i \in 1..Len(tokens) |->
        IF i \in DOMAIN names THEN Ident(names[i]) ELSE tokens[i]]
\* The input is well-formed as far as it goes.
WellFormedSoFar(r) ==
    IsOk(r) \/ (r.tag = "Err" /\ r.atEnd /\ r.msg = "unexpected end of input")
\* The markup starts an element (it is not the start of a buffer
\* expression, which takes any tokens), and some end tag carries a name that
\* is not its start tag's: with end tags renamed, at least one of them, the
\* input is well-formed as far as it goes.
HasMismatchedEndTag(tokens) ==
    /\ markup # <<>>
    /\ is_punct(markup[1][1], "<")
    /\ \E names \in [EndNamePositions(tokens) -> {N_a, N_b}] :
           /\ \E i \in DOMAIN names : names[i] # tokens[i].text
           /\ WellFormedSoFar(parse_input(WithSpans(Renamed(tokens, names), <<>>)))

\* C9: an input in which an element, at any nesting level, has an end tag
\* whose name is not its start tag's name is rejected by the macro with the
\* error "end tag '..' does not match start tag '..'", carrying the two
\* different names and the span of the end tag's `<`; no program results, no
\* Document call is made and nothing is written, whatever matched elements
\* come before the mismatch.
C9_MismatchedEndTagRejected ==
    HasMismatchedEndTag(Input) =>
        /\ \A r \in {run(Input)} :
              /\ r.tag = "Err"
              /\ r.msg = "end tag '{}' does not match start tag '{}'"
              /\ r.args[1] # r.args[2]
              /\ IsSome(r.span)
        /\ phase \in {"typing", "rejected"}
        /\ program = <<>>
        /\ calls = <<>>
        /\ buf = <<>>

C9_Witness ==
    /\ phase = "rejected"
    /\ header = H_new
    /\ markup = <<P_start_a, P_empty_b, P_start_b, P_end_a>>
    /\ HasMismatchedEndTag(Input)
    /\ calls = <<>>

---------------------------------------------------------------------------
(* Start tags with attribute lists (SpecAttrs): xml!(doc, <a ITEMS/>), the
   items drawn from pair attributes and fill attributes. *)

MaxAttrs == 3

\* {..e}
FillExpr == Group("Brace", <<Punct("."), Punct("."), Ident(<<"e">>)>>)
A_pair_lit == <<Ident(N_x), EQ, StrLit(V_hi)>>
A_pair_expr == <<Ident(N_y), EQ, HostExpr>>
A_fill == <<FillExpr>>
AttrItems == {A_pair_lit, A_pair_expr, A_fill}
AttrLists == SeqsUpTo(AttrItems, MaxAttrs)

\* The attribute items of the start tag that was written.
Items == SubSeq(markup, 2, Len(markup) - 1)

InitAttrs ==
    /\ header = H_append
    /\ \E items \in AttrLists :
           markup = <<<<LT, Ident(N_a)>>>> \o items \o <<<<SL, GT>>>>
    /\ phase = "typing"
    /\ program = <<>>
    /\ pc = 0
    /\ start = [buf |-> <<>>, depth |-> 0]
    /\ parsed = <<>>
    /\ lookahead = <<>>
    /\ reads = <<>>
    /\ buf = <<>>
    /\ depth = 0
    /\ format = Terse
    /\ status = "ok"
    /\ ctor = [version |-> "", standalone |-> ""]
    /\ calls = <<>>
    /\ prevBuf = <<>>
    /\ prevDepth = 0
    /\ val = <<>>

NextAttrs ==
    \/ Expand
    \/ RunBind
    \/ RunOpenTag
    \/ RunAttr
    \/ RunCloseEmptyElemTag

SpecAttrs == InitAttrs /\ [][NextAttrs]_vars

---------------------------------------------------------------------------
(* Properties of start tags with attribute lists (SpecAttrs). *)

\* The statement the emitter is to issue for an attribute item: one attr
\* call for a pair, one attrs call for a fill.
ItemStmtOp(item) == IF item = A_fill THEN "attrs" ELSE "attr"
\* The statements between open_tag and the close of the start tag.
AttrStmts == SubSeq(program, 3, Len(program) - 1)

\* C11: a start tag whose attribute list mixes fill attributes `{..expr}` and
\* pair attributes `name=value` in any order is parsed and emitted with one
\* attr call per pair and one attrs call per fill, in source order.
C11_Original ==
    phase # "typing" =>
        /\ phase # "rejected"
        /\ Len(AttrStmts) = Len(Items)
        /\ \A i \in 1..Len(Items) :
               /\ AttrStmts[i].stmt.op = ItemStmtOp(Items[i])
               /\ Items[i] # A_fill =>
                      AttrStmts[i].stmt.name = Items[i][1].text

---------------------------------------------------------------------------
(* The name parser on its own (SpecName): <ast::Name as Parse>::parse run on
   a token stream, which `header` holds. *)

MaxTokens == 4

N_27 == <<"2", "7">>
N_micro == <<"U+00B5">>
NameTokens ==
    {Ident(N_a), Ident(N_micro), NumLit(N_27),
     Punct(":"), Punct("-"), Punct("."), EQ, StrLit(V_hi), CStrLit(V_hi)}

InitName ==
    /\ header \in SeqsUpTo(NameTokens, MaxTokens)
    /\ markup = <<>>
    /\ phase = "typing"
    /\ program = <<>>
    /\ pc = 0
    /\ start = [buf |-> <<>>, depth |-> 0]
    /\ parsed = <<>>
    /\ lookahead = <<>>
    /\ reads = <<>>
    /\ buf = <<>>
    /\ depth = 0
    /\ format = Terse
    /\ status = "ok"
    /\ ctor = [version |-> "", standalone |-> ""]
    /\ calls = <<>>
    /\ prevBuf = <<>>
    /\ prevDepth = 0
    /\ val = <<>>

\* Name::parse(&mut ParseBuf::from_stream(tokens))
ParseName ==
    /\ phase = "typing"
    /\ parsed' = Some(parse_name(from_stream(WithSpans(Input, <<>>))))
    /\ phase' = "parsed"
    /\ UNCHANGED <<header, markup, program, pc, start, lookahead, reads>>
    /\ UNCHANGED document

NextName == ParseName

SpecName == InitName /\ [][NextName]_vars

---------------------------------------------------------------------------
(* Properties of the name parser (SpecName). *)

IsWord(tt) ==
    \/ tt.kind = "Ident"
    \/ (tt.kind = "Literal" /\ tt.lit = "num" /\ tt.text[1] \in Digit09)
IsNamePunct(tt) == tt.kind = "Punct" /\ tt.text[1] \in {":", "-", "."}
\* The first n tokens alternate words and name punctuation, starting with an
\* identifier, and a token that is neither follows them.
Alternates(tokens, n) ==
    /\ n >= 1
    /\ n < Len(tokens)
    /\ tokens[1].kind = "Ident"
    /\ \A i \in 1..n : IF i % 2 = 1 THEN IsWord(tokens[i])
                                    ELSE IsNamePunct(tokens[i])
    /\ ~IsWord(tokens[n + 1])
    /\ ~IsNamePunct(tokens[n + 1])
RECURSIVE Concatenation(_)
Concatenation(tokens) ==
    IF Len(tokens) = 0 THEN <<>>
    ELSE Head(tokens).text \o Concatenation(Tail(tokens))
HasInvalidIdentChar(tt) ==
    tt.kind = "Ident" /\ \E i \in 1..Len(tt.text) : tt.text[i] \in InvalidIdentChars
\* The parser returned the concatenation of the first n tokens' texts and the
\* token after them is the current one.
ReturnsConcatenation(r, tokens, n) ==
    /\ IsOk(r)
    /\ r.val = Concatenation(SubSeq(tokens, 1, n))
    /\ r.buf.curr = Some(WithSpans(tokens, <<>>)[n + 1])

\* C12 as stated: for any token sequence that alternates words (identifier
\* or digit-initial numeric literal) and punctuation from `:`, `-`, `.`,
\* starting with an identifier and followed by a token that is none of
\* these, the name parser returns the concatenation of the tokens' texts and
\* leaves the following token as the current token.
C12_Original ==
    phase = "parsed" =>
        \A n \in 1..Len(header) :
            Alternates(header, n) => ReturnsConcatenation(parsed[1], header, n)

\* C12: for any such token sequence in which no identifier contains one of
\* the characters U+00AA, U+00B5, U+00BA, U+2054, the name parser returns the
\* concatenation of the tokens' texts and leaves the following token as the
\* current token; when an identifier of the sequence contains one of these
\* characters the parser fails with the error "Character '..' is not allowed
\* in XML names".
C12_AlternatingTokensConcatenated ==
    phase = "parsed" =>
        \A n \in 1..Len(header) :
            Alternates(header, n) =>
                IF \E i \in 1..n : HasInvalidIdentChar(header[i])
                THEN /\ parsed[1].tag = "Err"
                     /\ parsed[1].msg = "Character '{}' is not allowed in XML names"
                ELSE ReturnsConcatenation(parsed[1], header, n)

C12_Witness ==
    /\ phase = "parsed"
    /\ header = <<Ident(N_a), Punct("-"), NumLit(N_27), EQ>>
    /\ Alternates(header, 3)
    /\ parsed[1].val = <<"a", "-", "2", "7">>
    /\ parsed[1].buf.curr[1].text = <<"=">>


\* C13: every Name the name parser returns satisfies is_name, whether it was
\* built from a token sequence or from a single string literal; a token
\* sequence that would yield anything else, such as one starting with the
\* numeric literal 27, is rejected with an error.
C13_Original ==
    phase = "parsed" =>
        /\ IsOk(parsed[1]) => is_name(parsed[1].val)
        /\ (header # <<>> /\ header[1] = NumLit(N_27)) => parsed[1].tag = "Err"

---------------------------------------------------------------------------
(* open_tag and attr called with any name, valid or not (SpecTag). *)

MaxTagCalls == 2

TagNames == {N_a, N_27, N_a_b, <<>>}
TagValues == {V_x, V_special}

InitTag ==
    /\ \E version \in Versions, standalone \in Standalones, fmt \in Formats :
           InitDoc(version, standalone, fmt)
    /\ val = <<>>
    /\ NoMacro

CanCallTag == status = "ok" /\ Len(calls) < MaxTagCalls

TagOpen ==
    \E n \in TagNames :
        CanCallTag /\ Becomes(open_tag(self, n),
                              Call("open_tag", n, NoValue, NoPairs))

TagAttr ==
    \E n \in TagNames, v \in TagValues :
        CanCallTag /\ Becomes(attr(self, n, v), Call("attr", n, v, NoPairs))

NextTag ==
    \/ TagOpen
    \/ TagAttr

SpecTag == InitTag /\ [][NextTag]_vars

---------------------------------------------------------------------------
(* Properties of open_tag and attr on any name (SpecTag). *)

\* C14: open_tag and attr never write a name for which is_name is false:
\* given such a name they panic, leaving the buffer as it was before the
\* call.
C14_Original ==
    (LastOp \in {"open_tag", "attr"} /\ ~is_name(LastCall.name)) =>
        /\ status = "panicked"
        /\ buf = prevBuf

---------------------------------------------------------------------------
(* The input parser on its own (SpecParse): ast::Input::parse_input run on a
   token stream, one of two kinds: any short sequence of markup tokens, or
   a prolog with any list of attributes followed by the root element <b/>.
   The tokens include a C string literal, both as a markup token and as
   the value of a prolog attribute. *)

MaxPrologAttrs == 4

ParseTokens ==
    {LT, QM, Ident(S_xml), Ident(S_version), EQ, StrLit(S_1_0),
     CStrLit(S_1_0), GT, SL, Ident(N_a)}

S_yes == <<"y", "e", "s">>
S_latin1 == <<"l", "a", "t", "i", "n", "1">>
PrologAttr(name, value) == <<Ident(name), EQ, StrLit(value)>>
\* version=c"1.0"
PrologAttrCStr == <<Ident(S_version), EQ, CStrLit(S_1_0)>>
PrologAttrs ==
    {PrologAttr(S_version, S_1_0), PrologAttr(S_version, S_1_1),
     PrologAttr(S_encoding, S_UTF8), PrologAttr(S_encoding, S_latin1),
     PrologAttr(S_standalone, S_yes), PrologAttrCStr}
PrologStart == <<LT, QM, Ident(S_xml)>>
PrologEnd == <<QM, GT>>

InitParse ==
    /\ \/ /\ header \in SeqsUpTo(ParseTokens, MaxTokens)
          /\ markup = <<>>
       \/ /\ \E attributes \in SeqsUpTo(PrologAttrs, MaxPrologAttrs) :
                 header = PrologStart \o Flatten(attributes) \o PrologEnd
          /\ markup = <<P_empty_b>>
    /\ phase = "typing"
    /\ program = <<>>
    /\ pc = 0
    /\ start = [buf |-> <<>>, depth |-> 0]
    /\ parsed = <<>>
    /\ lookahead = <<>>
    /\ reads = <<>>
    /\ buf = <<>>
    /\ depth = 0
    /\ format = Terse
    /\ status = "ok"
    /\ ctor = [version |-> "", standalone |-> ""]
    /\ calls = <<>>
    /\ prevBuf = <<>>
    /\ prevDepth = 0
    /\ val = <<>>

\* ast::Input::parse_input(tokens)
ParseInput ==
    /\ phase = "typing"
    /\ parsed' = Some(parse_input(WithSpans(Input, <<>>)))
    /\ phase' = "parsed"
    /\ UNCHANGED <<header, markup, program, pc, start, lookahead, reads>>
    /\ UNCHANGED document

NextParse == ParseInput

SpecParse == InitParse /\ [][NextParse]_vars

---------------------------------------------------------------------------
(* Properties of the input parser (SpecParse). *)

\* C15: parsing any finite token sequence, however malformed or truncated
\* (input ending right after `<?xml`, or inside a start tag), ends in an AST
\* or in an Error value with a message and an optional span; it never panics.
C15_Original ==
    phase = "parsed" =>
        \/ IsOk(parsed[1])
        \/ (parsed[1].tag = "Err" /\ parsed[1].msg # "")


\* The input is a prolog with a list of attributes and the root element.
IsPrologInput == markup = <<P_empty_b>>
\* The names of the prolog's attributes, in the order written.
PrologNames ==
    [i \in 1..((Len(header) - Len(PrologStart) - Len(PrologEnd)) \div 3) |->
        header[Len(PrologStart) + 3 * (i - 1) + 1].text]
FixedOrder == <<S_version, S_encoding, S_standalone>>
InFixedOrder ==
    /\ Len(PrologNames) \in 1..3
    /\ \A i \in 1..Len(PrologNames) : PrologNames[i] = FixedOrder[i]

\* C18: the prolog accepts its attributes only in the order version, then
\* optionally encoding, then (only after encoding) optionally standalone: a
\* prolog with no version, with the attributes in another order, with a
\* repeated attribute or with standalone but no encoding fails to parse with
\* an error that carries a span.  A prolog whose first attribute is
\* version=c"1.0" makes the parser panic at that value, whatever follows it.
C18_Original ==
    (phase = "parsed" /\ IsPrologInput /\ ~InFixedOrder) =>
        /\ parsed[1].tag = "Err"
        /\ IsSome(parsed[1].span)

\* The prolog <?xml version=c"1.0" version="1.0"?> has panicked.
C18_Panicked ==
    /\ phase = "parsed"
    /\ header = PrologStart \o PrologAttrCStr \o PrologAttr(S_version, S_1_0)
                \o PrologEnd
    /\ IsPrologInput
    /\ ~InFixedOrder
    /\ parsed[1].tag = "Panic"

\* With string literals for values the order is enforced: such a prolog
\* fails with an error that carries a span when its attributes are not in
\* the fixed order, and fails on none of its attribute names when they are.
ValuesAreStringLits == PrologAttrCStr \notin
    {SubSeq(header, i, i + 2) : i \in 1..(Len(header) - 2)}
C18_OrderOfStringValues ==
    (phase = "parsed" /\ IsPrologInput /\ ValuesAreStringLits) =>
        IF InFixedOrder
        THEN \/ IsOk(parsed[1])
             \/ parsed[1].msg = "only encoding 'UTF-8' is allowed"
        ELSE /\ parsed[1].tag = "Err"
             /\ IsSome(parsed[1].span)

---------------------------------------------------------------------------
(* Properties of Document::new (the initial states of SpecTag). *)

\* The standalone declaration as the XML grammar has it, value quoted.
C16_Standalone(standalone) ==
    CASE standalone = "Some(true)" ->
           <<" ","s","t","a","n","d","a","l","o","n","e","=","\"","y","e","s","\"">>
      [] standalone = "Some(false)" ->
           <<" ","s","t","a","n","d","a","l","o","n","e","=","\"","n","o","\"">>
      [] OTHER -> <<>>
C16_Prolog(version, standalone) ==
    <<"<","?","x","m","l"," ","v","e","r","s","i","o","n","=","\"">>
    \o VersionText(version)
    \o <<"\""," ","e","n","c","o","d","i","n","g","=","\"","U","T","F","-","8","\"">>
    \o C16_Standalone(standalone)
    \o <<"?", ">">>

\* C16: Document::new writes `<?xml version="V" encoding="UTF-8"`, then,
\* when standalone is present, ` standalone="yes"` for true or
\* ` standalone="no"` for false, the value in double quotes, then `?>` (and
\* the newline of the Pretty format); with standalone absent nothing is
\* written between the encoding and `?>`; depth starts at 0.
C16_Original ==
    calls = <<>> =>
        /\ buf = C16_Prolog(ctor.version, ctor.standalone)
                 \o (IF format.pretty THEN <<"\n">> ELSE <<>>)
        /\ depth = 0


---------------------------------------------------------------------------
(* The recorded calls of a run, made again. *)

\* One recorded call made again on the Document d.
Apply(d, call) ==
    CASE call.op = "open_tag" -> open_tag(d, call.name)
      [] call.op = "attr" -> attr(d, call.name, call.value)
      [] call.op = "attrs" -> attrs(d, call.pairs)
      [] call.op = "close_start_tag" -> close_start_tag(d)
      [] call.op = "close_empty_elem_tag" -> close_empty_elem_tag(d)
      [] call.op = "end_tag" -> end_tag(d, call.name)
      [] OTHER -> text(d, call.value)

\* The recorded calls made again, in order, from d.
RECURSIVE Replay(_, _)
Replay(d, cs) ==
    IF cs = <<>> THEN d ELSE Replay(Apply(d, Head(cs)), Tail(cs))

---------------------------------------------------------------------------
(* xml! invocations without meta attribute and with at most a version in
   the prolog (SpecPlain): the runs of SpecXml under these headers. *)

PlainHeaders == {H_none, H_append, H_new}

InitPlain == InitXml /\ header \in PlainHeaders

SpecPlain == InitPlain /\ [][NextXml]_vars

---------------------------------------------------------------------------
(* Properties of xml! invocations with and without a buffer (SpecPlain). *)

NeedsBufferOrProlog ==
    "you have to specify either a buffer to write into or an XML prolo"
\* A Document is constructed somewhere in the statements.
Constructs(stmts) == \E i \in DOMAIN stmts : stmts[i].op = "new"

\* The expansion has just been made: the macro rejected the input, or its
\* program is about to run.
JustExpanded == phase \in {"rejected", "expanded"}

\* C19: a prolog is required exactly when no buffer is given.  An input the
\* parser accepts with neither a buffer expression nor a prolog is rejected
\* by the macro with an error: no program results and no Document call is
\* made.  An input accepted with a buffer expression and no prolog expands to
\* a program that binds that Document and constructs none, and when that
\* program runs its calls append to what the Document held.
C19_PrologRequiredWithoutBuffer ==
    /\ JustExpanded =>
          \A p \in {parse_input(WithSpans(Input, <<>>))}, r \in {run(Input)} :
              (IsOk(p) /\ IsNone(p.val.prolog)) =>
                  IF IsNone(p.val.buffer)
                  THEN /\ r.tag = "Err"
                       /\ r.msg = NeedsBufferOrProlog
                       /\ phase = "rejected"
                       /\ program = <<>>
                       /\ calls = <<>>
                       /\ buf = <<>>
                  ELSE /\ IsOk(r)
                       /\ r.val[1].op = "bind"
                       /\ r.val[1].tokens = p.val.buffer[1]
                       /\ ~Constructs(r.val)
                       /\ phase = "expanded" => program[1].stmt = r.val[1]
    /\ (phase \in {"running", "done"} /\ program[1].stmt.op = "bind") =>
          /\ \E d \in HostDocuments : start.buf = d.buf
          /\ IsPrefix(start.buf, buf)
          /\ \A i \in DOMAIN program : program[i].stmt.op # "new"

\* Rejected for want of a prolog: <a><b/></a> with nothing before it.
C19_Witness ==
    /\ header = H_none
    /\ markup = <<P_start_a, P_empty_b, P_end_a>>
    /\ phase = "rejected"
    /\ run(Input).msg = NeedsBufferOrProlog
    /\ calls = <<>>

\* Appended: doc, <a>"hi"</a> run to its end on a Document that held more
\* than its prolog.
C19_WitnessAppend ==
    /\ header = H_append
    /\ markup = <<P_start_a, P_text, P_end_a>>
    /\ phase = "done"
    /\ start.depth = 1
    /\ IsPrefix(start.buf, buf)
    /\ Len(buf) > Len(start.buf)


---------------------------------------------------------------------------
(* Properties of the shorthand end tag (SpecPlain). *)

HasShorthand == \E i \in DOMAIN markup : markup[i] = P_end
\* The name a piece opens an element with, if it does.
Opens(piece) ==
    IF piece \in {P_start_a, P_start_attrs} THEN Some(N_a)
    ELSE IF piece = P_start_b THEN Some(N_b)
    ELSE None
NamedEnd(name) == <<LT, SL, Ident(name), GT>>
\* The markup with every `</>` written in full: as the end tag carrying the
\* name of the element open at that point (of `a` where none is open).
\* `open` holds the names of the elements open so far, innermost first.
RECURSIVE SpelledOut(_, _)
SpelledOut(pieces, open) ==
    IF pieces = <<>> THEN <<>>
    ELSE IF IsSome(Opens(Head(pieces)))
    THEN <<Head(pieces)>> \o SpelledOut(Tail(pieces), Opens(Head(pieces)) \o open)
    ELSE IF Head(pieces) = P_end
    THEN <<NamedEnd(IF open = <<>> THEN N_a ELSE Head(open))>>
         \o SpelledOut(Tail(pieces), IF open = <<>> THEN open ELSE Tail(open))
    ELSE IF Head(pieces) \in {P_end_a, P_end_b}
    THEN <<Head(pieces)>>
         \o SpelledOut(Tail(pieces), IF open = <<>> THEN open ELSE Tail(open))
    ELSE <<Head(pieces)>> \o SpelledOut(Tail(pieces), open)
InputInFull == header \o Flatten(SpelledOut(markup, <<>>))

\* Tokens and statements without their spans.
RECURSIVE EraseSpans(_)
EraseSpans(tokens) ==
    [i \in 1..Len(tokens) |->
        [tokens[i] EXCEPT !.span = NoSpan, !.inner = EraseSpans(tokens[i].inner)]]
SameStmts(s, t) ==
    /\ Len(s) = Len(t)
    /\ \A i \in 1..Len(s) :
           [s[i] EXCEPT !.tokens = EraseSpans(s[i].tokens),
                        !.arg.tokens = EraseSpans(s[i].arg.tokens)]
           = [t[i] EXCEPT !.tokens = EraseSpans(t[i].tokens),
                          !.arg.tokens = EraseSpans(t[i].arg.tokens)]
\* The Document calls a compiled program makes after its first statement.
ProgramCalls(prog) ==
    [i \in 1..(Len(prog) - 1) |->
        LET s == prog[i + 1].stmt
        IN  Call(s.op, s.name,
                 IF s.op \in {"attr", "text"} THEN ArgValue(s.arg) ELSE NoValue,
                 NoPairs)]

\* C20: the shorthand end tag `</>` closes an element of any name.  An
\* input with `</>` is accepted exactly when the same input with each `</>`
\* written as the full end tag of the element it closes is accepted; the
\* expansions are then the same statements, the end_tag of each element
\* carrying its start tag's name, and once the expansion has run the buffer
\* and the depth are those the input written in full produces from the same
\* Document.
C20_ShorthandEndTag ==
    /\ (JustExpanded /\ HasShorthand) =>
          \A r \in {run(Input)}, full \in {run(InputInFull)} :
              /\ r.tag = full.tag
              /\ r.msg = full.msg
              /\ IsOk(r) => SameStmts(r.val, full.val)
    /\ (Completed /\ HasShorthand) =>
          \A linked \in {Compile(InputInFull)} :
              /\ IsSome(linked)
              /\ \A d \in {Replay([buf |-> start.buf, depth |-> start.depth,
                                   format |-> format, panicked |-> FALSE],
                                  ProgramCalls(linked[1]))} :
                     buf = d.buf /\ depth = d.depth

\* <b> <a x="hi" y={e}> </> </> appended to a Document: both end_tag calls
\* carry the names of their start tags.
C20_Witness ==
    /\ header = H_append
    /\ markup = <<P_start_b, P_start_attrs, P_end, P_end>>
    /\ Completed
    /\ calls[Len(calls) - 1] = Call("end_tag", N_a, NoValue, NoPairs)
    /\ calls[Len(calls)] = Call("end_tag", N_b, NoValue, NoPairs)
    /\ EndsWith(buf, <<"<", "/", "a", ">", "<", "/", "b", ">">>)


---------------------------------------------------------------------------
(* Properties of the name parser on adjacent words (SpecName). *)

\* The tokens a ParseBuf still holds, and the number of tokens of the
\* stream the parser consumed.
Remaining(pb) == Len(pb.curr) + Len(pb.next) + Len(pb.iter)
Consumed == Len(header) - Remaining(parsed[1].buf)

\* C21: in the name parser a word (identifier or numeric literal) that
\* directly follows another word is never consumed: among the tokens a
\* returned name was built from, no two neighbours are both words, whether
\* the pair is ident-ident, ident-numeric, numeric-ident or numeric-numeric.
C21_Original ==
    (phase = "parsed" /\ IsOk(parsed[1])) =>
        \A i \in 2..Consumed : ~(IsWord(header[i - 1]) /\ IsWord(header[i]))


---------------------------------------------------------------------------
(* Properties of the Pretty layout of xml! invocations (SpecPlain). *)

\* The Document the expansion started on.
StartDocument ==
    [buf |-> start.buf, depth |-> start.depth, format |-> format,
     panicked |-> FALSE]
\* The index in cs of the open_tag call of the element whose end_tag or
\* close_empty_elem_tag comes next after position i, `inner` elements being
\* closed in between; 0 if there is none.
RECURSIVE MatchingOpen(_, _, _)
MatchingOpen(cs, i, inner) ==
    IF i = 0 THEN 0
    ELSE IF cs[i].op \in {"end_tag", "close_empty_elem_tag"}
    THEN MatchingOpen(cs, i - 1, inner + 1)
    ELSE IF cs[i].op = "open_tag"
    THEN (IF inner = 0 THEN i ELSE MatchingOpen(cs, i - 1, inner - 1))
    ELSE MatchingOpen(cs, i - 1, inner)
\* The numbers k such that b ends with a newline and k indentation units.
MaxUnits == 4
TrailingUnits(b) ==
    {k \in 0..MaxUnits : EndsWith(b, <<"\n">> \o Repeat(format.indentation, k))}
\* The buffer as it was before the `</name>` of the last call: the previous
\* buffer less one indentation unit.
BeforeEndTag == SubSeq(prevBuf, 1, Len(prevBuf) - Len(format.indentation))

\* C22: in Pretty mode end_tag removes exactly one trailing indentation unit
\* before writing, so the `</name>` it writes is preceded by a newline and
\* exactly as many indentation units as precede the `<name` of the matching
\* start tag, at every nesting depth and whatever the last child is (text,
\* nested element, self-closing element, none).
C22_EndTagAlignsWithStartTag ==
    (phase \in {"running", "done"} /\ format.pretty /\ LastOp = "end_tag") =>
        \A open \in {MatchingOpen(calls, Len(calls) - 1, 0)} :
            /\ open > 0
            /\ calls[open].name = LastCall.name
            /\ status = "ok"
            /\ IsPrefix(BeforeEndTag \o <<"<", "/">> \o LastCall.name \o <<">">>,
                        buf)
            /\ \A before \in {Replay(StartDocument,
                                     SubSeq(calls, 1, open - 1)).buf} :
                   /\ TrailingUnits(before) # {}
                   /\ TrailingUnits(BeforeEndTag) = TrailingUnits(before)

\* doc, <a> <b> </> </> appended in Pretty format inside an open element:
\* the end tag of b is written two units in.
C22_Witness ==
    /\ header = H_append
    /\ markup = <<P_start_a, P_start_b, P_end, P_end>>
    /\ format.pretty
    /\ start.depth = 1
    /\ LastOp = "end_tag"
    /\ LastCall.name = N_b
    /\ TrailingUnits(BeforeEndTag) = {2}


---------------------------------------------------------------------------
(* Properties of the order of the calls of xml! invocations (SpecPlain). *)

\* The calls the source order prescribes for one piece of markup, each with
\* the nesting level of the invocation that makes it; `name` is the name of
\* the element an end tag closes.
CallAt(level, op, name, value) ==
    [call |-> Call(op, name, value, NoPairs), level |-> level]
ContinuationCalls ==
    <<CallAt(1, "open_tag", N_b, NoValue),
      CallAt(1, "close_empty_elem_tag", NoName, NoValue),
      CallAt(1, "open_tag", N_a, NoValue),
      CallAt(1, "close_start_tag", NoName, NoValue),
      CallAt(1, "text", NoName, V_hi),
      CallAt(1, "end_tag", N_a, NoValue)>>
PieceCalls(piece, name) ==
    CASE piece \in {P_start_a, P_start_b} ->
           <<CallAt(0, "open_tag", Opens(piece)[1], NoValue),
             CallAt(0, "close_start_tag", NoName, NoValue)>>
      [] piece = P_start_attrs ->
           <<CallAt(0, "open_tag", N_a, NoValue),
             CallAt(0, "attr", N_x, V_hi),
             CallAt(0, "attr", N_y, V_special),
             CallAt(0, "close_start_tag", NoName, NoValue)>>
      [] piece = P_empty_b ->
           <<CallAt(0, "open_tag", N_b, NoValue),
             CallAt(0, "close_empty_elem_tag", NoName, NoValue)>>
      [] piece \in {P_end, P_end_a, P_end_b} ->
           <<CallAt(0, "end_tag", name, NoValue)>>
      [] piece = P_text -> <<CallAt(0, "text", NoName, V_hi)>>
      [] piece = P_text_expr -> <<CallAt(0, "text", NoName, V_special)>>
      [] OTHER -> ContinuationCalls
IsEndPiece(piece) == piece \in {P_end, P_end_a, P_end_b}
\* The calls of the pieces in source order, one list per piece.  `open`
\* holds the names of the elements open so far, innermost first.
RECURSIVE CallsInSourceOrder(_, _)
CallsInSourceOrder(pieces, open) ==
    IF pieces = <<>> THEN <<>>
    ELSE <<PieceCalls(Head(pieces), IF open = <<>> THEN N_a ELSE Head(open))>>
         \o CallsInSourceOrder(
                Tail(pieces),
                IF IsSome(Opens(Head(pieces))) THEN Opens(Head(pieces)) \o open
                ELSE IF IsEndPiece(Head(pieces)) /\ open # <<>> THEN Tail(open)
                ELSE open)
\* The calls made so far, each with the level of its statement.
CallsMade ==
    [i \in 1..Len(calls) |-> [call |-> calls[i], level |-> program[i + 1].level]]
\* Number of calls the first k lists hold.
RECURSIVE CallsBefore(_, _)
CallsBefore(lists, k) ==
    IF k = 0 THEN 0 ELSE Len(lists[k]) + CallsBefore(lists, k - 1)
\* The element that is open and whose start tag is closed after the first n
\* calls: the index of its close_start_tag, 0 if no element is open.
RECURSIVE EnclosingStart(_, _, _)
EnclosingStart(cs, n, inner) ==
    IF n = 0 THEN 0
    ELSE IF cs[n].op = "end_tag" THEN EnclosingStart(cs, n - 1, inner + 1)
    ELSE IF cs[n].op = "close_start_tag"
    THEN (IF inner = 0 THEN n ELSE EnclosingStart(cs, n - 1, inner - 1))
    ELSE EnclosingStart(cs, n - 1, inner)

\* C23: lending the Document to a continuation child is strictly nested.
\* The calls of a continuation's body are made together, after the
\* close_start_tag of the enclosing element and after every call of the
\* children written before the continuation, and before every call of the
\* children written after it and the end_tag of the enclosing element: the
\* body's calls stand in the call sequence exactly where the continuation
\* stands in the source, and the enclosing element is still open throughout.
C23_ContinuationStrictlyNested ==
    phase \in {"running", "done"} =>
        \A lists \in {CallsInSourceOrder(markup, <<>>)} :
        \A k \in DOMAIN markup :
            markup[k] = P_closure =>
                \A first \in {CallsBefore(lists, k - 1) + 1} :
                \A i \in DOMAIN calls :
                    IF i \in first..(first + Len(ContinuationCalls) - 1)
                    THEN /\ CallsMade[i] = ContinuationCalls[i - first + 1]
                         /\ EnclosingStart(calls, first - 1, 0) > 0
                         /\ CallsMade[EnclosingStart(calls, first - 1, 0)].level = 0
                         /\ EnclosingStart(calls, i, 0)
                                \in {EnclosingStart(calls, first - 1, 0)}
                                    \cup first..i
                    ELSE CallsMade[i].level = 1 =>
                             \E j \in DOMAIN markup :
                                 /\ j # k
                                 /\ markup[j] = P_closure
                                 /\ i - CallsBefore(lists, j - 1)
                                        \in 1..Len(ContinuationCalls)

\* doc, <a> "hi" {|d| ..} </>: the six calls of the body come after the
\* text call and before the end_tag of a.
C23_Witness ==
    /\ header = H_append
    /\ markup = <<P_start_a, P_text, P_closure, P_end>>
    /\ Completed
    /\ Len(calls) = 10
    /\ calls[3] = Call("text", NoName, V_hi, NoPairs)
    /\ \A i \in 4..9 : program[i + 1].level = 1
    /\ calls[10] = Call("end_tag", N_a, NoValue, NoPairs)


RECURSIVE Concat(_)
Concat(lists) == IF lists = <<>> THEN <<>> ELSE Head(lists) \o Concat(Tail(lists))
\* The calls the source order prescribes for the whole markup.
CallsExpected ==
    [i \in 1..Len(Concat(CallsInSourceOrder(markup, <<>>))) |->
        Concat(CallsInSourceOrder(markup, <<>>))[i].call]

\* C24: for every element the driver issues open_tag first, then the
\* attribute calls in source order, then close_empty_elem_tag and nothing
\* more if the element is self-closing, otherwise close_start_tag, then the
\* calls of each child in source order (a nested element's calls being
\* contiguous), then end_tag last: at every moment of a run the calls made
\* are the first calls of the sequence the markup prescribes read from left
\* to right, and all of it once the run is complete.
C24_CallsInSourceOrder ==
    phase \in {"running", "done"} =>
        /\ IsPrefix(calls, CallsExpected)
        /\ Completed => calls = CallsExpected

\* doc, <a x="hi" y={e}> <b/> "hi" </a>
C24_Witness ==
    /\ header = H_append
    /\ markup = <<P_start_attrs, P_empty_b, P_text, P_end_a>>
    /\ Completed
    /\ calls = <<Call("open_tag", N_a, NoValue, NoPairs),
                 Call("attr", N_x, V_hi, NoPairs),
                 Call("attr", N_y, V_special, NoPairs),
                 Call("close_start_tag", NoName, NoValue, NoPairs),
                 Call("open_tag", N_b, NoValue, NoPairs),
                 Call("close_empty_elem_tag", NoName, NoValue, NoPairs),
                 Call("text", NoName, V_hi, NoPairs),
                 Call("end_tag", N_a, NoValue, NoPairs)>>


\* ---------------------------------------------------------------------------
\* Escaping in each of the three operations that write a value: attr, attrs
\* with one pair, and text, each called once on a fresh document.

EscAttrs ==
    /\ calls = <<>>
    /\ Becomes(attrs(self, <<<<N_a, val>>>>),
               Call("attrs", NoName, NoValue, <<<<N_a, val>>>>))

NextQuote ==
    \/ EscAttr
    \/ EscAttrs
    \/ EscText

SpecQuote == InitEsc /\ [][NextQuote]_vars

\* The replacement of the characters of v one by one; quote tells whether "
\* is replaced as well.
RECURSIVE Replaced(_, _)
Replaced(v, quote) ==
    IF v = <<>> THEN <<>>
    ELSE (IF v[1] = "<" THEN <<"&", "l", "t", ";">>
          ELSE IF v[1] = ">" THEN <<"&", "g", "t", ";">>
          ELSE IF v[1] = "&" THEN <<"&", "a", "m", "p", ";">>
          ELSE IF v[1] = "\"" /\ quote THEN <<"&", "q", "u", "o", "t", ";">>
          ELSE <<v[1]>>) \o Replaced(Tail(v), quote)

\* C25: text writes a " of its value unchanged while attr and attrs write it
\* as &quot;; <, > and & become &lt;, &gt; and &amp; in all three, and ' (as
\* every other character) is written as it is.
C25_QuoteEscapedInAttributesOnly ==
    /\ LastOp = "text" => TextWritten = Replaced(val, FALSE)
    /\ LastOp = "attr" => AttrValueWritten = Replaced(val, TRUE)
    /\ LastOp = "attrs"
           => buf = prevBuf \o <<" ">> \o N_a \o <<"=", "\"">>
                    \o Replaced(val, TRUE) \o <<"\"">>

C25_Witness ==
    /\ LastOp = "attrs"
    /\ status = "ok"
    /\ val = <<"\"", "'", "<">>
    /\ buf = prevBuf \o <<" ">> \o N_a
                 \o <<"=", "\"", "&", "q", "u", "o", "t", ";", "'",
                      "&", "l", "t", ";", "\"">>

C25_WitnessText ==
    /\ LastOp = "text"
    /\ val = <<"\"", "'", "<">>
    /\ TextWritten = <<"\"", "'", "&", "l", "t", ";">>


\* ---------------------------------------------------------------------------
\* ParseBuf on its own: a buffer built by from_stream over the tokens of
\* header, then read by curr, next and bump in any order.

MaxReads == 6

BufTokens == {Ident(N_a), EQ}

Stream == WithSpans(header, <<>>)

InitBuf ==
    /\ header \in SeqsUpTo(BufTokens, MaxTokens)
    /\ markup = <<>>
    /\ phase = "reading"
    /\ program = <<>>
    /\ pc = 0
    /\ start = [buf |-> <<>>, depth |-> 0]
    /\ parsed = <<>>
    /\ lookahead = Some(from_stream(WithSpans(header, <<>>)))
    /\ reads = <<>>
    /\ buf = <<>>
    /\ depth = 0
    /\ format = Terse
    /\ status = "ok"
    /\ ctor = [version |-> "", standalone |-> ""]
    /\ calls = <<>>
    /\ prevBuf = <<>>
    /\ prevDepth = 0
    /\ val = <<>>

Read(op, r) == [op |-> op, tag |-> r.tag, val |-> r.val, msg |-> r.msg]

Reading(op, r, after) ==
    /\ Len(reads) < MaxReads
    /\ reads' = Append(reads, Read(op, r))
    /\ lookahead' = Some(after)
    /\ UNCHANGED <<header, markup, phase, program, pc, start, parsed>>
    /\ UNCHANGED document

\* buf.curr(), through &self
Curr == Reading("curr", curr(lookahead[1]), lookahead[1])

\* buf.next(), through &self
PeekNext == Reading("next", next(lookahead[1]), lookahead[1])

\* buf.bump(), through &mut self
Bump == Reading("bump", bump(lookahead[1]), Bumped(lookahead[1]))

NextBuf ==
    \/ Curr
    \/ PeekNext
    \/ Bump

SpecBuf == InitBuf /\ [][NextBuf]_vars

\* The successful bump calls among the first i - 1 calls.
BumpsBefore(i) ==
    Cardinality({j \in 1..(i - 1) : reads[j].op = "bump" /\ reads[j].tag = "Ok"})

\* The call returned the token at index k (from 0) of the stream, or the
\* end-of-input error when the stream has no such token.
Yields(read, k) ==
    IF k < Len(header)
    THEN read.tag = "Ok" /\ read.val = Stream[k + 1]
    ELSE read.tag = "Err" /\ read.msg = "unexpected end of input"

\* C26: after k successful bump calls curr yields token k and next token
\* k + 1, each failing with unexpected end of input when there is no such
\* token; a bump made after k successful ones returns token k (so the k-th
\* returned token k - 1) and fails once k is the number of tokens; curr and
\* next leave the cursor where it is, whatever the order of the calls.
C26_LookaheadCursor ==
    phase = "reading" =>
        /\ \A i \in 1..Len(reads) :
               /\ reads[i].op = "curr" => Yields(reads[i], BumpsBefore(i))
               /\ reads[i].op = "next" => Yields(reads[i], BumpsBefore(i) + 1)
               /\ reads[i].op = "bump" => Yields(reads[i], BumpsBefore(i))
        /\ BumpsBefore(Len(reads) + 1) <= Len(header)
        /\ Yields(Read("curr", curr(lookahead[1])), BumpsBefore(Len(reads) + 1))

C26_Witness ==
    /\ phase = "reading"
    /\ header = <<Ident(N_a), EQ>>
    /\ Len(reads) = 6
    /\ [i \in 1..6 |-> reads[i].op]
           = <<"bump", "curr", "next", "bump", "bump", "bump">>
    /\ reads[1].val.text = N_a
    /\ reads[2].val.text = <<"=">>
    /\ reads[3].tag = "Err"
    /\ reads[4].val.span = <<2>>
    /\ reads[5].tag = "Err"
    /\ reads[6].msg = "unexpected end of input"


\* ---------------------------------------------------------------------------
\* The expansion appending to a Pretty Document of any indentation: as
\* SpecXml with the input `doc, ...`, the Document `doc` constructed with
\* one of the indentation strings below.

Indentations == {<<>>, <<" ">>, Indent2, <<"\t">>}

\* The Documents `doc` can be: just constructed, or inside an element `n`
\* whose start tag is closed.
IndentDocuments ==
    LET fresh == {new("V1_0", "None", Pretty(i)) : i \in Indentations}
    IN  fresh \cup {close_start_tag(open_tag(d, N_n)) : d \in fresh}

InitIndent == InitXml /\ header = H_append

\* let mut buf = &mut *doc;
RunBindIndent ==
    /\ phase = "expanded"
    /\ AtStmt("bind")
    /\ \E d \in IndentDocuments : Begins(d)
    /\ ctor' = [version |-> "V1_0", standalone |-> "None"]

NextIndent ==
    \/ Type
    \/ Expand
    \/ RunBindIndent
    \/ RunOpenTag
    \/ RunAttr
    \/ RunCloseStartTag
    \/ RunCloseEmptyElemTag
    \/ RunText
    \/ RunEndTag

SpecIndent == InitIndent /\ [][NextIndent]_vars

\* The end of a line in Pretty mode: the newline and the indentation of the
\* current depth.
LineStart == <<"\n">> \o Repeat(format.indentation, depth)

\* C27: in Pretty mode, whatever the indentation string (the empty one
\* included), every end_tag call the expansion makes finds the buffer ending
\* with the indentation string and depth above 0, so neither assertion
\* fails; and after new (with or without an enclosing element already open)
\* and after each close_start_tag, close_empty_elem_tag, end_tag and text
\* the buffer ends with a newline and depth copies of the indentation.
C27_EndTagAssertionHolds ==
    (phase \in {"running", "done", "panicked"} /\ format.pretty) =>
        /\ status = "ok"
        /\ (calls # <<>> /\ LastOp = "end_tag")
               => (prevDepth > 0 /\ EndsWith(prevBuf, format.indentation))
        /\ (calls = <<>>
              \/ LastOp \in {"close_start_tag", "close_empty_elem_tag",
                             "end_tag", "text"})
               => EndsWith(buf, LineStart)

C27_Witness ==
    /\ phase = "done"
    /\ format = Pretty(<<>>)
    /\ markup = <<P_start_a, P_text, P_empty_b, P_end_a>>
    /\ LastOp = "end_tag"
    /\ status = "ok"
    /\ EndsWith(prevBuf, <<"<", "b", " ", "/", ">", "\n">>)
    /\ EndsWith(buf, <<"<", "/", "a", ">", "\n">>)

C27_WitnessTab ==
    /\ phase = "done"
    /\ format = Pretty(<<"\t">>)
    /\ start.depth = 1
    /\ markup = <<P_start_a, P_start_b, P_end, P_end>>
    /\ LastOp = "end_tag"
    /\ status = "ok"
    /\ EndsWith(prevBuf, <<"<", "/", "b", ">", "\n", "\t", "\t">>)
    /\ EndsWith(buf, <<"<", "/", "a", ">", "\n", "\t">>)


---------------------------------------------------------------------------
(* The buffer only grows: hand-written calls on a Pretty Document whose
   indentation string is a letter that names end with (SpecTrim). *)

\* Format::Pretty { indentation: "o" }
InitTrim ==
    /\ InitDoc("V1_0", "None", Pretty(<<"o">>))
    /\ val = <<>>
    /\ NoMacro

SpecTrim == InitTrim /\ [][NextDoc]_vars

\* prevBuf without its last indentation.len() characters.
KeptByEndTag == SubSeq(prevBuf, 1, Len(prevBuf) - Len(format.indentation))

\* C28: in Terse mode every operation leaves the buffer it found as a prefix
\* of the buffer it leaves.  In Pretty mode so does every operation but an
\* end_tag that returns: it takes exactly one indentation unit off the end,
\* a unit of the line start the operation before it wrote, and appends to
\* what is left; so no text, name or attribute value is altered or removed.
\* end_tag tests only that the buffer ends with the indentation string: after
\* open_tag("foo") with the indentation "o" the assertion passes and the
\* truncate takes the last letter of the name.
C28_Original ==
    calls # <<>> =>
        IF format.pretty /\ LastOp = "end_tag" /\ status = "ok"
        THEN /\ prevDepth >= 1
             /\ EndsWith(prevBuf,
                         <<"\n">> \o Repeat(format.indentation, prevDepth))
             /\ IsPrefix(KeptByEndTag, buf)
             /\ Len(buf) > Len(KeptByEndTag)
        ELSE IsPrefix(prevBuf, buf)

\* new, open_tag("n"), close_start_tag, open_tag("foo"), end_tag("n"): the
\* buffer ends with `<fo</n>`.
C28_NameCut ==
    /\ format = Pretty(<<"o">>)
    /\ calls = << Call("open_tag", N_n, NoValue, NoPairs),
                  Call("close_start_tag", NoName, NoValue, NoPairs),
                  Call("open_tag", N_foo, NoValue, NoPairs),
                  Call("end_tag", N_n, NoValue, NoPairs) >>
    /\ status = "ok"
    /\ EndsWith(prevBuf, <<"<", "n", ">", "\n", "o", "<", "f", "o", "o">>)
    /\ EndsWith(buf, <<"<", "n", ">", "\n", "o", "<", "f", "o",
                      "<", "/", "n", ">", "\n">>)


\* ---------------------------------------------------------------------------
\* The escaping writer fed by a Display that writes its output in pieces:
\* one value, cut anywhere into three chunks (empty ones included), each
\* chunk handed to write_str in turn.

SplitChars == {"<", ">", "&", "\"", "t", ";"}

\* escape_into for a value whose Display calls write_str once per chunk.
RECURSIVE escape_chunks(_, _, _)
escape_chunks(b, chunks, escape_quote) ==
    IF chunks = <<>> THEN b
    ELSE escape_chunks(write_str(b, Head(chunks), escape_quote),
                       Tail(chunks), escape_quote)

InitSplit ==
    /\ InitDoc("V1_0", "None", Terse)
    /\ val \in SeqsUpTo(SplitChars, MaxLen)
    /\ NoMacro

EscapeChunks ==
    \E escape_quote \in BOOLEAN, j \in 0..Len(val), k \in 0..Len(val) :
        /\ calls = <<>>
        /\ j <= k
        /\ LET chunks == <<SubSeq(val, 1, j), SubSeq(val, j + 1, k),
                           SubSeq(val, k + 1, Len(val))>>
           IN  Becomes([self EXCEPT
                            !.buf = escape_chunks(buf, chunks, escape_quote)],
                       [op |-> "escape_into", name |-> NoName, value |-> val,
                        pairs |-> NoPairs, chunks |-> chunks,
                        escape_quote |-> escape_quote])

NextSplit == EscapeChunks

SpecSplit == InitSplit /\ [][NextSplit]_vars

\* C29: however the value is cut into write_str calls, the buffer grows by
\* what a single write_str call on the whole value appends, and that is the
\* replacement of the value character by character, each on its own.
C29_SplitIndependent ==
    LastOp = "escape_into" =>
        /\ buf = write_str(prevBuf, val, LastCall.escape_quote)
        /\ buf = prevBuf \o Replaced(val, LastCall.escape_quote)

C29_Witness ==
    /\ LastOp = "escape_into"
    /\ val = <<"&", "t", ";", "\"">>
    /\ LastCall.chunks = <<<<"&">>, <<"t", ";">>, <<"\"">>>>
    /\ LastCall.escape_quote
    /\ Appended = <<"&", "a", "m", "p", ";", "t", ";",
                    "&", "q", "u", "o", "t", ";">>


\* ---------------------------------------------------------------------------
\* The loops of the parser, one iteration at a time.  Each loop is started
\* on a buffer over any token stream (every buffer a loop can be entered
\* with is one over the rest of some stream) and runs until it is left or
\* the function returns.  phase names the loop that is running, pc counts
\* the iterations begun, lookahead is the buffer, and parsed holds the
\* locals of the Name loop.

Loops == {"name", "attributes", "children", "input", "buffer"}

LoopTokens(loop) ==
    CASE loop = "name"       -> NameTokens
      [] loop = "attributes" -> {Ident(N_a), Punct("-"), EQ, StrLit(V_hi),
                                 CStrLit(V_hi), GT, SL}
      [] loop = "children"   -> {StrLit(V_hi), CStrLit(V_hi), HostExpr, LT, SL,
                                 Ident(N_a), GT}
      [] loop = "input"      -> {Punct("#"),
                                 Group("Bracket", <<Ident(S_format), EQ>> \o TerseTokens),
                                 Group("Bracket", <<Ident(N_a)>>),
                                 Ident(N_a), Punct(","), LT}
      [] loop = "buffer"     -> {Ident(N_a), Punct(","), LT}

\* What an iteration does next: Ok("continue") with the buffer for the next
\* iteration and the loop's locals, Ok("break") when the loop is left or the
\* function returns Ok from inside it, with the locals as the iteration
\* found them, and the Err or panic it returns.
Continue(pb, out, eat_non_punct) ==
    Ok([ctl |-> "continue", out |-> out, eat_non_punct |-> eat_non_punct], pb)
Break(pb, out, eat_non_punct) ==
    Ok([ctl |-> "break", out |-> out, eat_non_punct |-> eat_non_punct], pb)

\* Mutant of name_iteration: a literal's text is pushed and the token left
\* in the buffer.
name_iteration_literal_kept(pb, out, eat_non_punct) ==
    IF IsNone(pb.curr) THEN Break(pb, out, eat_non_punct)
    ELSE Let(pb.curr[1], LAMBDA tt :
         Let(name_step(tt, out, eat_non_punct), LAMBDA step :
           CASE step = "stop" -> Break(pb, out, eat_non_punct)
             [] step = "err" ->
                  Err("Character '{}' is not allowed in XML names", <<>>,
                      None, FALSE, pb)
             [] tt.kind = "Ident" ->
                  Continue(Bumped(pb), out \o tt.text, FALSE)
             [] tt.kind = "Literal" ->
                  Continue(pb, out \o LiteralToString(tt), eat_non_punct)
             [] OTHER ->
                  Continue(Bumped(pb), out \o tt.text, TRUE)))

\* One iteration of the loop of <ast::Name as Parse>::parse.
name_iteration(pb, out, eat_non_punct) ==
    IF IsNone(pb.curr) THEN Break(pb, out, eat_non_punct)
    ELSE Let(pb.curr[1], LAMBDA tt :
         Let(name_step(tt, out, eat_non_punct), LAMBDA step :
           CASE step = "stop" -> Break(pb, out, eat_non_punct)
             [] step = "err" ->
                  Err("Character '{}' is not allowed in XML names", <<>>,
                      None, FALSE, pb)
             [] tt.kind = "Ident" ->
                  Continue(Bumped(pb), out \o tt.text, FALSE)
             [] tt.kind = "Literal" ->
                  Continue(Bumped(pb), out \o LiteralToString(tt), eat_non_punct)
             [] OTHER ->
                  Continue(Bumped(pb), out \o tt.text, TRUE)))

\* One iteration of the attribute loop of <ast::Element as Parse>::parse.
attribute_iteration(pb) ==
    Try(curr(pb), LAMBDA c :
    IF is_punct(c.val, ">") THEN Break(Bumped(pb), <<>>, TRUE)
    ELSE IF is_punct(c.val, "/")
    THEN Try(expect_punct(Bumped(pb), ">"), LAMBDA e : Break(e.buf, <<>>, TRUE))
    ELSE Try(parse_name(pb), LAMBDA n :
         Try(expect_punct(n.buf, "="), LAMBDA e :
         Try(parse_attr_value(e.buf), LAMBDA v :
             Continue(v.buf, <<>>, TRUE)))))

\* One iteration of the children loop of <ast::Element as Parse>::parse.
child_iteration(pb) ==
    Try(at_end_tag(pb), LAMBDA stop :
    IF stop.val THEN Break(pb, <<>>, TRUE)
    ELSE Try(parse_child(pb), LAMBDA ch : Continue(ch.buf, <<>>, TRUE)))

\* One iteration of the loop of <ast::Input as Parse>::parse.
input_iteration(pb) ==
    Try(curr(pb), LAMBDA c :
    IF is_punct(c.val, "#")
    THEN Try(expect_punct(pb, "#"), LAMBDA h :
         Try(expect_group(h.buf, "Bracket"), LAMBDA g :
         Try(Inner(expect_ident(from_group(g.val)), g.buf), LAMBDA key :
         IF key.val.text = S_format
         THEN Try(Inner(expect_punct(key.buf, "="), g.buf), LAMBDA e :
                  Continue(g.buf, <<>>, TRUE))
         ELSE Err("unsupported global attribute '{other}'", <<key.val.text>>,
                  Some(key.val.span), FALSE, g.buf))))
    ELSE IF is_punct(c.val, "<") THEN Break(pb, <<>>, TRUE)
    ELSE Let(buffer_tokens(pb, <<>>), LAMBDA t :
         Try(bump(t.buf), LAMBDA comma : Continue(comma.buf, <<>>, TRUE))))

\* One iteration of the loop collecting the buffer expression.
buffer_iteration(pb) ==
    IF IsSome(pb.curr) /\ ~is_punct(pb.curr[1], ",")
    THEN Continue(Bumped(pb), <<>>, TRUE)
    ELSE Break(pb, <<>>, TRUE)

NameLocals == [out |-> <<>>, eat_non_punct |-> TRUE]

InitLoop ==
    /\ phase \in Loops
    /\ header \in SeqsUpTo(LoopTokens(phase), MaxTokens)
    /\ markup = <<>>
    /\ program = <<>>
    /\ pc = 0
    /\ start = [buf |-> <<>>, depth |-> 0]
    /\ parsed = Some(NameLocals)
    /\ lookahead = Some(from_stream(WithSpans(header, <<>>)))
    /\ reads = <<>>
    /\ buf = <<>>
    /\ depth = 0
    /\ format = Terse
    /\ status = "ok"
    /\ ctor = [version |-> "", standalone |-> ""]
    /\ calls = <<>>
    /\ prevBuf = <<>>
    /\ prevDepth = 0
    /\ val = <<>>

\* The iteration returned r: the loop goes on with r's buffer and locals, is
\* left, or the function has returned an error or panicked.  The buffer is
\* the caller's
\* (`buf: &mut ParseBuf`): it stays as the iteration left it, whatever the
\* iteration returned.
Iterated(r) ==
    /\ pc' = pc + 1
    /\ phase' = IF ~IsOk(r) THEN "failed"
                ELSE IF r.val.ctl = "continue" THEN phase ELSE "left"
    /\ lookahead' = Some(r.buf)
    /\ parsed' = IF IsOk(r)
                 THEN Some([out |-> r.val.out,
                            eat_non_punct |-> r.val.eat_non_punct])
                 ELSE parsed
    /\ UNCHANGED <<header, markup, program, start, reads>>
    /\ UNCHANGED document

NameIteration ==
    /\ phase = "name"
    /\ Iterated(name_iteration(lookahead[1], parsed[1].out,
                               parsed[1].eat_non_punct))

AttributeIteration ==
    /\ phase = "attributes"
    /\ Iterated(attribute_iteration(lookahead[1]))

ChildIteration ==
    /\ phase = "children"
    /\ Iterated(child_iteration(lookahead[1]))

InputIteration ==
    /\ phase = "input"
    /\ Iterated(input_iteration(lookahead[1]))

BufferIteration ==
    /\ phase = "buffer"
    /\ Iterated(buffer_iteration(lookahead[1]))

NextLoop ==
    \/ NameIteration
    \/ AttributeIteration
    \/ ChildIteration
    \/ InputIteration
    \/ BufferIteration

SpecLoop == InitLoop /\ [][NextLoop]_vars

\* An iteration after which the loop goes on.
GoesOn == phase \in Loops /\ phase' = phase /\ pc' = pc + 1

\* C30: every iteration of the input loop, the buffer-expression loop, the
\* attribute loop, the children loop and the name loop after which the loop
\* goes on has taken at least one token from the buffer; every other
\* iteration leaves the loop or ends the function, with an error or, on a
\* C string literal, with a panic, at the end of the input as well.  So a
\* loop on n tokens begins at most n + 1 iterations.
C30_EveryIterationProgresses ==
    /\ [](pc <= Len(header) + 1)
    /\ [][GoesOn => Remaining(lookahead'[1]) < Remaining(lookahead[1])]_vars

C30_Witness ==
    /\ phase = "failed"
    /\ header = <<Ident(N_a), Punct(","), Ident(N_a)>>
    /\ pc = 2
    /\ Remaining(lookahead[1]) = 0

C30_WitnessAttributes ==
    /\ phase = "left"
    /\ header = <<Ident(N_a), EQ, StrLit(V_hi), GT>>
    /\ pc = 2
    /\ Remaining(lookahead[1]) = 0


\* ---------------------------------------------------------------------------
\* xml! invocations with a buffer expression and, in the same input, a
\* format directive and a prolog: as SpecXml, the header one of those below.

F_pretty == SubSeq(H_pretty, 1, 2)
X_1_1 == SubSeq(H_pretty, 3, Len(H_pretty))
\* <?xml encoding="UTF-8"?>: the version is missing.
X_unversioned ==
    <<LT, QM, Ident(S_xml), Ident(S_encoding), EQ, StrLit(S_UTF8), QM, GT>>

\* doc, #[format = pretty] <?xml version="1.1" encoding="UTF-8"?>
H_append_pretty == H_append \o F_pretty \o X_1_1
\* #[format = pretty] doc, <?xml version="1.0" encoding="UTF-8" standalone="yes"?>
H_pretty_append == F_pretty \o H_append \o H_standalone
\* doc, <?xml encoding="UTF-8"?>
H_append_unversioned == H_append \o X_unversioned

FrameHeaders == {H_append_pretty, H_pretty_append, H_append_unversioned}

InitFrame ==
    /\ header \in FrameHeaders
    /\ markup = <<>>
    /\ phase = "typing"
    /\ program = <<>>
    /\ pc = 0
    /\ start = [buf |-> <<>>, depth |-> 0]
    /\ parsed = <<>>
    /\ lookahead = <<>>
    /\ reads = <<>>
    /\ buf = <<>>
    /\ depth = 0
    /\ format = Terse
    /\ status = "ok"
    /\ ctor = [version |-> "", standalone |-> ""]
    /\ calls = <<>>
    /\ prevBuf = <<>>
    /\ prevDepth = 0
    /\ val = <<>>

NextFrame ==
    \/ Type
    \/ Expand
    \/ RunBind
    \/ RunOpenTag
    \/ RunAttr
    \/ RunCloseStartTag
    \/ RunCloseEmptyElemTag
    \/ RunText
    \/ RunEndTag

SpecFrame == InitFrame /\ [][NextFrame]_vars

\* The same input with neither prolog nor directive: doc, and the markup.
InputStripped == H_append \o Flatten(markup)

\* C31: with a buffer expression, a prolog and a format directive in the
\* same input are parsed (a malformed prolog is an error) and change
\* nothing else.  An input that is accepted expands to the statements of
\* the input without them: the first binds the Document, none constructs
\* one.  Once the expansion has run, the calls made are those of
\* the input without them, on the format and depth the Document had; what
\* the Document held is kept and nothing of a prolog is written after it.
C31_PrologAndDirectiveWithoutEffect ==
    /\ (JustExpanded /\ header = H_append_unversioned) =>
          /\ phase = "rejected"
          /\ run(Input).msg
                 = "expected '{name}' (prolog attributes have a fixed order)"
    /\ (JustExpanded /\ header # H_append_unversioned) =>
          \A r \in {run(Input)}, plain \in {run(InputStripped)} :
              /\ IsOk(r) => /\ IsOk(plain)
                            /\ SameStmts(r.val, plain.val)
                            /\ r.val[1].op = "bind"
                            /\ ~Constructs(r.val)
              /\ phase = "expanded" => (IsOk(r) /\ program[1].stmt.op = "bind")
    /\ Completed =>
          \A linked \in {Compile(InputStripped)} :
              /\ IsSome(linked)
              /\ calls = ProgramCalls(linked[1])
              /\ \E d \in HostDocuments :
                     /\ start = [buf |-> d.buf, depth |-> d.depth]
                     /\ format = d.format
                     /\ \A end \in {Replay(d, calls)} :
                            buf = end.buf /\ depth = end.depth
              /\ IsPrefix(start.buf, buf)
              /\ \A i \in (Len(start.buf) + 1)..Len(buf) : buf[i] # "?"

\* doc, #[format = pretty] <?xml version="1.1" ..?> <a>"hi"<b/></a> run on a
\* Terse Document: Terse output, no prolog, no indentation.
C31_Witness ==
    /\ header = H_append_pretty
    /\ markup = <<P_start_a, P_text, P_empty_b, P_end_a>>
    /\ Completed
    /\ format = Terse
    /\ start.depth = 0
    /\ Len(calls) = 6
    /\ buf = start.buf \o <<"<", "a", ">", "h", "i", "<", "b", "/", ">",
                            "<", "/", "a", ">">>

C31_WitnessRejected ==
    /\ header = H_append_unversioned
    /\ phase = "rejected"
    /\ calls = <<>>

=========================================================================
